---- MODULE Spec2Model ----
(***************************************************************************)
(* A model of the spot-pointer lighting control surface.                   *)
(*                                                                         *)
(* Number representation.  The program computes in IEEE doubles; the model *)
(* uses integers:                                                          *)
(*   - lengths (x, y, z of fixtures and targets) are centimetres,          *)
(*   - angles (pan, tilt, offsets, ranges) are millidegrees,               *)
(*   - pixel/real-world coordinates and percentages are exact rationals    *)
(*     [n |-> numerator, d |-> denominator > 0].                           *)
(* Math.atan2 and Math.sqrt are computed by integer algorithms whose error *)
(* is below 2 millidegrees / 1 millimetre on the inputs used here.         *)
(***************************************************************************)
EXTENDS Integers, Sequences, FiniteSets, TLC

VARIABLES
  call,     \* the last call made to a function of utils/geometry
  state,    \* the state object of the lighting store
  now,      \* the reading of Date.now()
  last,     \* the store action taken last
  steps,    \* the number of store actions taken
  panel,    \* what the control panel and the fixture list keep between events
  telnet,   \* a TelnetClient, its processQueue loops and what it has sent
  api,      \* the GrandMA2ApiClients made by initializeApi and its calls
  sends     \* a GrandMA2ApiClient and the command methods called on it

vars == <<call, state, now, last, steps, panel, telnet, api, sends>>

storeVars == <<state, now, last, steps>>

netVars == <<telnet, api, sends>>

---------------------------------------------------------------------------
(* Arithmetic of the JavaScript runtime *)

Abs(a) == IF a < 0 THEN -a ELSE a

Sign(a) == IF a > 0 THEN 1 ELSE IF a < 0 THEN -1 ELSE 0

\* Math.max / Math.min on two numbers
MathMax(a, b) == IF a >= b THEN a ELSE b

MathMin(a, b) == IF a <= b THEN a ELSE b

\* JavaScript's % : the remainder takes the sign of the dividend (b > 0)
JsRem(a, b) == IF a >= 0 THEN a % b ELSE -((-a) % b)

\* a / b rounded to the nearest integer (a >= 0, b > 0)
RoundDiv(a, b) == (2 * a + b) \div (2 * b)

RECURSIVE SqrtSearch(_, _, _)
SqrtSearch(n, lo, hi) ==
  IF lo >= hi THEN lo
  ELSE LET mid == (lo + hi + 1) \div 2
       IN  IF mid * mid <= n THEN SqrtSearch(n, mid, hi)
                             ELSE SqrtSearch(n, lo, mid - 1)

\* floor of the square root of n (0 <= n < 2^30)
ISqrt(n) == SqrtSearch(n, 0, 32767)

RECURSIVE Gcd(_, _)
Gcd(a, b) == IF b = 0 THEN a ELSE Gcd(b, a % b)

\* the rational n / d (d # 0) in lowest terms with a positive denominator
Rat(n, d) ==
  LET g == Gcd(Abs(n), Abs(d))
      s == IF d < 0 THEN -1 ELSE 1
  IN  [n |-> s * (n \div g), d |-> s * (d \div g)]

RatInt(k) == [n |-> k, d |-> 1]

RatAdd(a, b) == Rat(a.n * b.d + b.n * a.d, a.d * b.d)

RatSub(a, b) == Rat(a.n * b.d - b.n * a.d, a.d * b.d)

RatMul(a, b) == Rat(a.n * b.n, a.d * b.d)

\* a / b for b # 0
RatDiv(a, b) == Rat(a.n * b.d, a.d * b.n)

RatLeq(a, b) == a.n * b.d <= b.n * a.d

\* atan(k / 128) in millidegrees, k = 0 .. 128
AtanTable ==
  <<   0, 448, 895, 1343, 1790, 2237, 2684, 3130,
       3576, 4022, 4467, 4912, 5356, 5799, 6242, 6684,
       7125, 7565, 8005, 8443, 8881, 9317, 9752, 10187,
       10620, 11051, 11482, 11911, 12339, 12766, 13191, 13614,
       14036, 14457, 14876, 15293, 15709, 16123, 16535, 16945,
       17354, 17761, 18166, 18569, 18970, 19370, 19767, 20163,
       20556, 20947, 21337, 21724, 22109, 22493, 22874, 23253,
       23629, 24004, 24376, 24747, 25115, 25481, 25844, 26206,
       26565, 26922, 27277, 27629, 27979, 28327, 28673, 29017,
       29358, 29697, 30033, 30368, 30700, 31030, 31357, 31682,
       32005, 32326, 32645, 32961, 33275, 33587, 33896, 34203,
       34509, 34811, 35112, 35410, 35707, 36001, 36293, 36582,
       36870, 37155, 37439, 37720, 37999, 38276, 38550, 38823,
       39094, 39362, 39629, 39894, 40156, 40416, 40675, 40931,
       41186, 41438, 41689, 41938, 42184, 42429, 42672, 42913,
       43152, 43390, 43625, 43859, 44091, 44321, 44549, 44775,
       45000 >>

\* atan(lo / hi) in millidegrees for 0 <= lo <= hi, hi > 0, lo < 32768:
\* the table, linearly interpolated
AtanUnit(lo, hi) ==
  LET t    == RoundDiv(lo * 65536, hi)
      idx  == t \div 512
      frac == t % 512
  IN  IF idx >= 128 THEN AtanTable[129]
      ELSE AtanTable[idx + 1]
           + RoundDiv((AtanTable[idx + 2] - AtanTable[idx + 1]) * frac, 512)

\* Math.atan2(y, x) * (180 / Math.PI), in millidegrees: in [-180000, 180000],
\* atan2(0, 0) = 0 and atan2(0, x < 0) = 180 degrees (no negative zeros arise
\* from the subtractions that feed it)
Atan2Deg(y, x) ==
  LET ay  == Abs(y)
      ax  == Abs(x)
      ref == IF ay = 0 /\ ax = 0 THEN 0
             ELSE IF ay <= ax THEN AtanUnit(ay, ax)
             ELSE 90000 - AtanUnit(ax, ay)
      mag == IF x >= 0 THEN ref ELSE 180000 - ref
  IN  IF y >= 0 THEN mag ELSE -mag

---------------------------------------------------------------------------
(* utils/geometry.ts : calculatePanTilt *)

\* a slip: the bearing measured from +X, as the earlier revision of the file does
rawPanFromX(dx, dy) == Atan2Deg(dy, dx)

\* let pan = Math.atan2(dx, dy) * (180 / Math.PI)
rawPan(dx, dy) == Atan2Deg(dx, dy)

\* const h = Math.sqrt(dx * dx + dy * dy), in millimetres
horizontalDistance(dx, dy) == ISqrt(100 * (dx * dx + dy * dy))

\* a slip: no branch for the target straight above or below
rawTiltNoPole(dx, dy, dz) == Atan2Deg(horizontalDistance(dx, dy), 10 * dz)

\* a slip: the elevation from the horizontal, as the earlier revision computes it
rawTiltElevation(dx, dy, dz) ==
  LET h == horizontalDistance(dx, dy)
  IN  IF h = 0 THEN (IF dz > 0 THEN 90000 ELSE -90000)
      ELSE Atan2Deg(10 * dz, h)

\* the tilt before calibration: the h === 0 branch, else atan2(h, dz)
rawTilt(dx, dy, dz) ==
  LET h == horizontalDistance(dx, dy)
  IN  IF h = 0 THEN (IF dz > 0 THEN 90000 ELSE -90000)
      ELSE Atan2Deg(h, 10 * dz)

\* a slip: the offset added before the sign flip
calibrateOffsetFirst(angle, inverted, offset) ==
  IF inverted THEN -(angle + offset) ELSE angle + offset

\* if (inverted) angle = -angle;  angle += offset
calibrate(angle, inverted, offset) ==
  (IF inverted THEN -angle ELSE angle) + offset

\* pan = ((pan + 180.0) % 360.0) - 180.0
wrapPan(pan) == JsRem(pan + 180000, 360000) - 180000

\* the test panRange >= 360.0 - 1e-6 (both sides in units of 1e-6 degree)
spansFullTurn(range) == (range.max - range.min) * 1000 >= 360000 * 1000 - 1

\* the pan after the wrap step (the calibrated pan when the range is narrower)
wrappedPan(pan, range) == IF spansFullTurn(range) THEN wrapPan(pan) ELSE pan

\* a slip: a full-turn range wraps and is not clamped afterwards
rangePanWrapOnly(pan, range) ==
  IF spansFullTurn(range) THEN wrapPan(pan)
  ELSE MathMax(range.min, MathMin(range.max, pan))

\* range handling of pan, lines 40-49: wrap and if/else-if clamp, or Math.max/min
rangePan(pan, range) ==
  IF spansFullTurn(range)
  THEN LET w == wrapPan(pan)
       IN  IF w < range.min THEN range.min
           ELSE IF w > range.max THEN range.max
           ELSE w
  ELSE MathMax(range.min, MathMin(range.max, pan))

\* tilt = Math.max(tiltRange.min, Math.min(tiltRange.max, tilt))
clampTilt(tilt, range) == MathMax(range.min, MathMin(range.max, tilt))

\* every local of calculatePanTilt at the end of the call
calculatePanTiltLocals(fixture, targetX, targetY, targetZ) ==
  LET dx      == targetX - fixture.x
      dy      == targetY - fixture.y
      dz      == fixture.z - targetZ
      pan0    == rawPan(dx, dy)
      tilt0   == rawTilt(dx, dy, dz)
      pan1    == calibrate(pan0, fixture.panInverted, fixture.panOffset)
      tilt1   == calibrate(tilt0, fixture.tiltInverted, fixture.tiltOffset)
  IN  [ dx |-> dx, dy |-> dy, dz |-> dz,
        h |-> horizontalDistance(dx, dy),
        panRaw |-> pan0, tiltRaw |-> tilt0,
        panCalibrated |-> pan1, tiltCalibrated |-> tilt1,
        panWrapped |-> wrappedPan(pan1, fixture.panRange),
        pan |-> rangePan(pan1, fixture.panRange),
        tilt |-> clampTilt(tilt1, fixture.tiltRange) ]

calculatePanTilt(fixture, targetX, targetY, targetZ) ==
  LET l == calculatePanTiltLocals(fixture, targetX, targetY, targetZ)
  IN  [pan |-> l.pan, tilt |-> l.tilt]

\* isTargetReachable: recomputes the aim (targetZ defaults to 0) and tests it
isTargetReachable(fixture, targetX, targetY) ==
  LET r == calculatePanTilt(fixture, targetX, targetY, 0)
      panInRange  == r.pan >= fixture.panRange.min /\ r.pan <= fixture.panRange.max
      tiltInRange == r.tilt >= fixture.tiltRange.min /\ r.tilt <= fixture.tiltRange.max
  IN  panInRange /\ tiltInRange

---------------------------------------------------------------------------
(* part_000 : calculatePanTilt of the file's earlier revision, which        *)
(* normalises the pan into [-270, 270] and clamps nothing                   *)

\* a slip: the pan brought into [-180, 180], not into [-270, 270]
RECURSIVE normalizePanHalfTurn(_)
normalizePanHalfTurn(pan) ==
  IF pan > 180000 THEN normalizePanHalfTurn(pan - 360000)
  ELSE IF pan < -180000 THEN normalizePanHalfTurn(pan + 360000)
  ELSE pan

\* while (pan > 270) pan -= 360; while (pan < -270) pan += 360
RECURSIVE normalizePan(_)
normalizePan(pan) ==
  IF pan > 270000 THEN normalizePan(pan - 360000)
  ELSE IF pan < -270000 THEN normalizePan(pan + 360000)
  ELSE pan

\* pan += offset; if (inverted) pan = -pan
offsetThenInvert(angle, inverted, offset) ==
  IF inverted THEN -(angle + offset) ELSE angle + offset

\* every local of the earlier calculatePanTilt at the end of the call
calculatePanTiltNormalizingLocals(fixture, targetX, targetY, targetZ) ==
  LET dx      == targetX - fixture.x
      dy      == targetY - fixture.y
      dz      == targetZ - fixture.z
      pan0    == Atan2Deg(dy, dx)
      pan1    == offsetThenInvert(pan0, fixture.panInverted, fixture.panOffset)
      tilt0   == Atan2Deg(-(10 * dz), horizontalDistance(dx, dy))
      tilt1   == offsetThenInvert(tilt0, fixture.tiltInverted, fixture.tiltOffset)
  IN  [ panRaw |-> pan0, panCalibrated |-> pan1, pan |-> normalizePan(pan1),
        tiltRaw |-> tilt0, tilt |-> tilt1 ]

---------------------------------------------------------------------------
(* utils/geometry.ts : calculateLightCone *)

\* Math.tan(angle) * length for 0 <= angle < 90 degrees (angle in
\* millidegrees), rounded down: the arctangent table read backwards
TanTimes(angle, length) ==
  LET a   == IF angle <= 45000 THEN angle ELSE 90000 - angle
      idx == CHOOSE k \in 0 .. 127 :
               /\ AtanTable[k + 1] <= a
               /\ (k = 127 \/ a < AtanTable[k + 2])
      t   == idx * 512
             + ((a - AtanTable[idx + 1]) * 512)
                 \div (AtanTable[idx + 2] - AtanTable[idx + 1])
  IN  IF angle <= 45000 THEN (length * t) \div 65536
      ELSE (length * 65536) \div t

\* a slip: the ellipse turned by the bearing of the target, not by the pan the
\* fixture assumes
calculateLightConeRawRotation(fixture, targetX, targetY, beamAngle) ==
  LET coneRadius == TanTimes(beamAngle, 10 * fixture.z)
  IN  [ centerX |-> targetX, centerY |-> targetY,
        radiusX |-> coneRadius, radiusY |-> (coneRadius * 8) \div 10,
        rotation |-> rawPan(targetX - fixture.x, targetY - fixture.y) ]

\* the ellipse a fixture's beam draws on the floor; lengths of the radii in
\* millimetres (distance, line 104, is computed and never used)
calculateLightCone(fixture, targetX, targetY, beamAngle) ==
  LET pan        == calculatePanTilt(fixture, targetX, targetY, 0).pan
      coneRadius == TanTimes(beamAngle, 10 * fixture.z)
  IN  [ centerX |-> targetX, centerY |-> targetY,
        radiusX |-> coneRadius, radiusY |-> (coneRadius * 8) \div 10,
        rotation |-> pan ]

---------------------------------------------------------------------------
(* utils/geometry.ts : degreesToPercent *)

\* a slip: the linear map without the clamp to [0, 100]
degreesToPercentUnclamped(degrees, min, max) ==
  IF max = min THEN [nan |-> TRUE, n |-> 0, d |-> 1]
  ELSE LET v == Rat((degrees - min) * 100, max - min)
       IN  [nan |-> FALSE, n |-> v.n, d |-> v.d]

\* Math.max(0, Math.min(100, ((degrees - min) / (max - min)) * 100)).
\* For max = min the quotient is +Infinity, -Infinity or NaN (0 / 0); the
\* clamp turns the infinities into 100 and 0 and lets NaN through.
degreesToPercent(degrees, min, max) ==
  IF max = min
  THEN IF degrees > min THEN [nan |-> FALSE, n |-> 100, d |-> 1]
       ELSE IF degrees < min THEN [nan |-> FALSE, n |-> 0, d |-> 1]
       ELSE [nan |-> TRUE, n |-> 0, d |-> 1]
  ELSE LET v == Rat((degrees - min) * 100, max - min)
           c == IF RatLeq(RatInt(100), v) THEN RatInt(100)
                ELSE IF RatLeq(v, RatInt(0)) THEN RatInt(0)
                ELSE v
       IN  [nan |-> FALSE, n |-> c.n, d |-> c.d]

\* a slip: the range's width scaled, the range's start forgotten
percentToDegreesNoMin(percent, min, max) ==
  IF percent.nan THEN [nan |-> TRUE, n |-> 0, d |-> 1]
  ELSE LET v == RatMul(Rat(percent.n, percent.d * 100), RatInt(max - min))
       IN  [nan |-> FALSE, n |-> v.n, d |-> v.d]

\* min + (percent / 100) * (max - min); NaN in, NaN out
percentToDegrees(percent, min, max) ==
  IF percent.nan THEN [nan |-> TRUE, n |-> 0, d |-> 1]
  ELSE LET v == RatAdd(RatInt(min),
                       RatMul(Rat(percent.n, percent.d * 100), RatInt(max - min)))
       IN  [nan |-> FALSE, n |-> v.n, d |-> v.d]

---------------------------------------------------------------------------
(* utils/geometry.ts : pixelToReal / realToPixel, the canvas rotated by 90   *)
(* degrees; and the plain mapping of the file's earlier revision            *)

\* const canvasWidth = floorPlan.height * floorPlan.pixelsPerMeter
canvasWidth(floorPlan) == RatMul(floorPlan.height, floorPlan.pixelsPerMeter)

pixelToReal(pixelX, pixelY, floorPlan) ==
  [ x |-> RatDiv(pixelY, floorPlan.pixelsPerMeter),
    y |-> RatDiv(RatSub(canvasWidth(floorPlan), pixelX), floorPlan.pixelsPerMeter) ]

\* a slip: the canvas width taken from floorPlan.width instead of .height
realToPixelByWidth(realX, realY, floorPlan) ==
  [ x |-> RatSub(RatMul(floorPlan.width, floorPlan.pixelsPerMeter),
                 RatMul(realY, floorPlan.pixelsPerMeter)),
    y |-> RatMul(realX, floorPlan.pixelsPerMeter) ]

realToPixel(realX, realY, floorPlan) ==
  [ x |-> RatSub(canvasWidth(floorPlan), RatMul(realY, floorPlan.pixelsPerMeter)),
    y |-> RatMul(realX, floorPlan.pixelsPerMeter) ]

pixelToRealPlain(pixelX, pixelY, floorPlan) ==
  [ x |-> RatDiv(pixelX, floorPlan.pixelsPerMeter),
    y |-> RatDiv(pixelY, floorPlan.pixelsPerMeter) ]

realToPixelPlain(realX, realY, floorPlan) ==
  [ x |-> RatMul(realX, floorPlan.pixelsPerMeter),
    y |-> RatMul(realY, floorPlan.pixelsPerMeter) ]

---------------------------------------------------------------------------
(* stores/lightingStore.ts : the zustand store.  `state` is the store's     *)
(* state object (fixtures, floorPlan, selectedFixtures, presets,            *)
(* targetPoint, apiClient; apiConfig and the preset's name, description and *)
(* createdAt are strings no action reads and are left out).                 *)

\* JavaScript's null
Null == [null |-> TRUE]

\* Array.prototype.includes
Includes(array, v) == \E i \in DOMAIN array : array[i] = v

\* Array.prototype.map
Map(array, F(_)) == [i \in DOMAIN array |-> F(array[i])]

\* Array.prototype.find on a test of the id: the first match, or undefined
FindById(array, id) ==
  IF \E i \in DOMAIN array : array[i].id = id
  THEN array[CHOOSE i \in DOMAIN array :
               /\ array[i].id = id
               /\ \A j \in 1 .. i - 1 : array[j].id # id]
  ELSE Null

\* one line of defaultFixtures: the lines differ in id and x only
defaultFixture(id, x) ==
  [ id |-> id, x |-> x, y |-> 500, z |-> 300, pan |-> 0, tilt |-> 0,
    dimmer |-> 0, color |-> [r |-> 255, g |-> 255, b |-> 255], gobo |-> 0,
    zoom |-> 15, iris |-> 50, isSelected |-> FALSE,
    targetX |-> x, targetY |-> 300,
    panRange |-> [min |-> -270000, max |-> 270000],
    tiltRange |-> [min |-> -134000, max |-> 134000],
    panOffset |-> 0, tiltOffset |-> 0,
    panInverted |-> FALSE, tiltInverted |-> FALSE ]

defaultFixtures ==
  << defaultFixture(1, 100), defaultFixture(2, 300), defaultFixture(3, 450),
     defaultFixture(4, 650), defaultFixture(5, 800), defaultFixture(6, 1000) >>

\* the state create() builds
initialState ==
  [ fixtures |-> defaultFixtures,
    floorPlan |-> [ width |-> RatInt(12), height |-> RatInt(8),
                    pixelsPerMeter |-> RatInt(50) ],
    selectedFixtures |-> << >>,
    presets |-> << >>,
    targetPoint |-> Null,
    apiClient |-> Null ]

\* what a store action hands to the console client: nothing without a client;
\* the client issues the request only while it is connected
ClientCall(s, method, args) ==
  IF s.apiClient = Null THEN << >>
  ELSE << [ method |-> method, args |-> args,
            posted |-> s.apiClient.connected ] >>

selectFixture(s, id, multi) ==
  IF multi
  THEN IF Includes(s.selectedFixtures, id)
       THEN [ s EXCEPT
                !.selectedFixtures = SelectSeq(@, LAMBDA fId : fId # id),
                !.fixtures = Map(@, LAMBDA f :
                   [f EXCEPT !.isSelected = IF f.id = id THEN FALSE ELSE @]) ]
       ELSE [ s EXCEPT
                !.selectedFixtures = Append(@, id),
                !.fixtures = Map(@, LAMBDA f :
                   [f EXCEPT !.isSelected = IF f.id = id THEN TRUE ELSE @]) ]
  ELSE IF Includes(s.selectedFixtures, id) /\ Len(s.selectedFixtures) = 1
       THEN [ s EXCEPT
                !.selectedFixtures = << >>,
                !.fixtures = Map(@, LAMBDA f : [f EXCEPT !.isSelected = FALSE]) ]
       ELSE [ s EXCEPT
                !.selectedFixtures = << id >>,
                !.fixtures = Map(@, LAMBDA f :
                   [f EXCEPT !.isSelected = (f.id = id)]) ]

selectAllFixtures(s) ==
  [ s EXCEPT
      !.selectedFixtures = Map(s.fixtures, LAMBDA f : f.id),
      !.fixtures = Map(@, LAMBDA f : [f EXCEPT !.isSelected = TRUE]) ]

clearSelection(s) ==
  [ s EXCEPT
      !.selectedFixtures = << >>,
      !.fixtures = Map(@, LAMBDA f : [f EXCEPT !.isSelected = FALSE]) ]

selectFixtureById(s, id) ==
  [ s EXCEPT
      !.selectedFixtures = << id >>,
      !.fixtures = Map(@, LAMBDA f : [f EXCEPT !.isSelected = (f.id = id)]) ]

\* { ...f, ...updates }: the fields of updates over those of f
updateFixture(s, id, updates) ==
  [ s EXCEPT !.fixtures = Map(@, LAMBDA f :
      IF f.id = id THEN updates @@ f ELSE f) ]

setTargetPoint(s, x, y) == [ s EXCEPT !.targetPoint = [x |-> x, y |-> y] ]

\* a slip: the aim stored as computed, without the clamp to the tilt range
aimFixtureAtUnclampedTilt(s, fixtureId, x, y) ==
  LET fixture == FindById(s.fixtures, fixtureId)
  IN  IF fixture = Null THEN s
      ELSE LET l == calculatePanTiltLocals(fixture, x, y, 0)
           IN  [ s EXCEPT
                   !.fixtures = Map(@, LAMBDA f :
                      IF f.id = fixtureId
                      THEN [f EXCEPT !.pan = l.pan, !.tilt = l.tiltCalibrated,
                                     !.targetX = x, !.targetY = y]
                      ELSE f),
                   !.targetPoint = [x |-> x, y |-> y] ]

\* a slip: the aim moves every fixture, not only the one named
aimFixtureAtAll(s, fixtureId, x, y) ==
  LET fixture == FindById(s.fixtures, fixtureId)
  IN  IF fixture = Null THEN s
      ELSE LET aim == calculatePanTilt(fixture, x, y, 0)
           IN  [ s EXCEPT
                   !.fixtures = Map(@, LAMBDA f :
                      [f EXCEPT !.pan = aim.pan, !.tilt = aim.tilt,
                                !.targetX = x, !.targetY = y]),
                   !.targetPoint = [x |-> x, y |-> y] ]

\* the state aimFixtureAt leaves (lines 128-130 and 144-150)
aimFixtureAt(s, fixtureId, x, y) ==
  LET fixture == FindById(s.fixtures, fixtureId)
  IN  IF fixture = Null THEN s
      ELSE LET aim == calculatePanTilt(fixture, x, y, 0)
           IN  [ s EXCEPT
                   !.fixtures = Map(@, LAMBDA f :
                      IF f.id = fixtureId
                      THEN [f EXCEPT !.pan = aim.pan, !.tilt = aim.tilt,
                                     !.targetX = x, !.targetY = y]
                      ELSE f),
                   !.targetPoint = [x |-> x, y |-> y] ]

\* a slip: the console is sent the raw degrees, not the percentages
aimFixtureAtSendsDegrees(s, fixtureId, x, y) ==
  LET fixture == FindById(s.fixtures, fixtureId)
  IN  IF fixture = Null THEN << >>
      ELSE LET aim == calculatePanTilt(fixture, x, y, 0)
           IN  ClientCall(s, "sendPanTilt",
                 << fixtureId, [nan |-> FALSE, n |-> aim.pan, d |-> 1000],
                    [nan |-> FALSE, n |-> aim.tilt, d |-> 1000] >>)

\* what aimFixtureAt hands to the console client (lines 128-142)
aimFixtureAtSends(s, fixtureId, x, y) ==
  LET fixture == FindById(s.fixtures, fixtureId)
  IN  IF fixture = Null THEN << >>
      ELSE LET aim         == calculatePanTilt(fixture, x, y, 0)
               panPercent  == degreesToPercent(aim.pan, fixture.panRange.min,
                                               fixture.panRange.max)
               tiltPercent == degreesToPercent(aim.tilt, fixture.tiltRange.min,
                                               fixture.tiltRange.max)
           IN  ClientCall(s, "sendPanTilt",
                          << fixtureId, panPercent, tiltPercent >>)

\* a slip: the dimmer update also sends the fixtures to their home position
updateDimmerAndHome(s, fixtureIds, dimmer) ==
  [ s EXCEPT !.fixtures = Map(@, LAMBDA f :
      IF Includes(fixtureIds, f.id)
      THEN [f EXCEPT !.dimmer = dimmer, !.pan = 0, !.tilt = 0] ELSE f) ]

updateDimmer(s, fixtureIds, dimmer) ==
  [ s EXCEPT !.fixtures = Map(@, LAMBDA f :
      IF Includes(fixtureIds, f.id) THEN [f EXCEPT !.dimmer = dimmer] ELSE f) ]

updateColor(s, fixtureIds, r, g, b) ==
  [ s EXCEPT !.fixtures = Map(@, LAMBDA f :
      IF Includes(fixtureIds, f.id)
      THEN [f EXCEPT !.color = [r |-> r, g |-> g, b |-> b]] ELSE f) ]

updateGobo(s, fixtureIds, gobo) ==
  [ s EXCEPT !.fixtures = Map(@, LAMBDA f :
      IF Includes(fixtureIds, f.id) THEN [f EXCEPT !.gobo = gobo] ELSE f) ]

updateIris(s, fixtureIds, iris) ==
  [ s EXCEPT !.fixtures = Map(@, LAMBDA f :
      IF Includes(fixtureIds, f.id) THEN [f EXCEPT !.iris = iris] ELSE f) ]

\* ({ isSelected, ...fixture }) => fixture
WithoutIsSelected(f) ==
  [ k \in DOMAIN f \ {"isSelected"} |-> f[k] ]

\* the preset's id is Date.now().toString(): the clock reading t stands for
\* its decimal string (toString is one-to-one)
savePreset(s, t) ==
  [ s EXCEPT !.presets =
      Append(@, [ id |-> t, fixtures |-> Map(s.fixtures, WithoutIsSelected) ]) ]

loadPresetKeepsSelected(s, presetId) ==
  LET preset == FindById(s.presets, presetId)
  IN  IF preset = Null THEN s
      ELSE [ s EXCEPT !.fixtures =
               [ i \in DOMAIN preset.fixtures |->
                   [isSelected |-> s.fixtures[i].isSelected]
                     @@ preset.fixtures[i] ] ]

loadPreset(s, presetId) ==
  LET preset == FindById(s.presets, presetId)
  IN  IF preset = Null THEN s
      ELSE [ s EXCEPT !.fixtures =
               Map(preset.fixtures, LAMBDA f : [isSelected |-> FALSE] @@ f) ]

deletePreset(s, presetId) ==
  [ s EXCEPT !.presets = SelectSeq(@, LAMBDA p : p.id # presetId) ]

\* width and height in metres; pixelsPerMeter = 500 / Math.max(width, height)
setFloorPlan(s, width, height) ==
  [ s EXCEPT !.floorPlan =
      [ width |-> width, height |-> height,
        pixelsPerMeter |->
          RatDiv(RatInt(500), IF RatLeq(height, width) THEN width ELSE height) ] ]

updateFixtureHeight(s, height) ==
  [ s EXCEPT !.fixtures = Map(@, LAMBDA f : [f EXCEPT !.z = height]) ]

updateFixturePosition(s, id, x, y) ==
  [ s EXCEPT !.fixtures = Map(@, LAMBDA f :
      IF f.id = id THEN [f EXCEPT !.x = x, !.y = y] ELSE f) ]

\* the place of fixture f in [...fixtures].sort((a, b) => a.x - b.x), counted
\* from 0 (the sort is stable)
SortedIndex(fixtures, f) ==
  LET k == CHOOSE i \in DOMAIN fixtures :
             /\ fixtures[i].id = f.id
             /\ \A j \in 1 .. i - 1 : fixtures[j].id # f.id
  IN  Cardinality({ j \in DOMAIN fixtures :
                      \/ fixtures[j].x < fixtures[k].x
                      \/ (fixtures[j].x = fixtures[k].x /\ j < k) })

\* baseY = fixtures[0]?.y || 5 of the sorted array; startX = 1
adjustFixtureSpacing(s, spacing) ==
  LET first == CHOOSE i \in DOMAIN s.fixtures : SortedIndex(s.fixtures, s.fixtures[i]) = 0
      baseY == IF s.fixtures = << >> \/ s.fixtures[first].y = 0 THEN 500
               ELSE s.fixtures[first].y
  IN  [ s EXCEPT !.fixtures = Map(@, LAMBDA f :
          [f EXCEPT !.x = 100 + SortedIndex(s.fixtures, f) * spacing,
                    !.y = baseY]) ]

\* initializeApi, run to its end: the client held before is disconnected, a
\* new one is built and connects or fails; the store keeps it if it connected
initializeApi(s, connected) ==
  IF connected THEN [ s EXCEPT !.apiClient = [connected |-> TRUE] ]
  ELSE IF s.apiClient = Null THEN s
  ELSE [ s EXCEPT !.apiClient = [connected |-> FALSE] ]

\* components/FixtureList.tsx : the select-all toggle and the Clear button.
\* Both run over the fixtures and the selection the component rendered with
\* (captured), calling the store once per fixture.

\* fixtures.forEach(f => selectFixture(f.id, false)), from fixture i on
RECURSIVE SelectEachAlone(_, _, _)
SelectEachAlone(s, fixtures, i) ==
  IF i > Len(fixtures) THEN s
  ELSE SelectEachAlone(selectFixture(s, fixtures[i].id, FALSE), fixtures, i + 1)

\* fixtures.forEach(f => { if (!selectedFixtures.includes(f.id))
\*   selectFixture(f.id, true) }), from fixture i on
RECURSIVE AddEachUnselected(_, _, _, _)
AddEachUnselected(s, fixtures, captured, i) ==
  IF i > Len(fixtures) THEN s
  ELSE AddEachUnselected(
         IF ~Includes(captured, fixtures[i].id)
         THEN selectFixture(s, fixtures[i].id, TRUE) ELSE s,
         fixtures, captured, i + 1)

handleSelectAll(s) ==
  IF Len(s.selectedFixtures) = Len(s.fixtures)
  THEN SelectEachAlone(s, s.fixtures, 1)
  ELSE AddEachUnselected(s, s.fixtures, s.selectedFixtures, 1)

\* fixtures.forEach(f => { if (selectedFixtures.includes(f.id))
\*   selectFixture(f.id, false) }), from fixture i on
RECURSIVE SelectEachSelectedAlone(_, _, _, _)
SelectEachSelectedAlone(s, fixtures, captured, i) ==
  IF i > Len(fixtures) THEN s
  ELSE SelectEachSelectedAlone(
         IF Includes(captured, fixtures[i].id)
         THEN selectFixture(s, fixtures[i].id, FALSE) ELSE s,
         fixtures, captured, i + 1)

handleSelectNone(s) ==
  SelectEachSelectedAlone(s, s.fixtures, s.selectedFixtures, 1)

\* the store as create() leaves it, no action taken yet
StoreIdle ==
  /\ state = initialState
  /\ now = 0
  /\ last = [op |-> "create", args |-> << >>, sent |-> << >>]
  /\ steps = 0

---------------------------------------------------------------------------
(* utils/telnet.ts : formatFixtureList, the same text in TelnetClient and in *)
(* the GrandMA2ApiClient of that file                                       *)

\* [...array].sort((a, b) => a - b)
RECURSIVE SortNumeric(_)
SortNumeric(array) ==
  IF array = << >> THEN << >>
  ELSE LET m == CHOOSE i \in DOMAIN array :
                  \A j \in DOMAIN array :
                    array[i] < array[j] \/ (array[i] = array[j] /\ i <= j)
       IN  << array[m] >>
             \o SortNumeric([ k \in 1 .. Len(array) - 1 |->
                              IF k < m THEN array[k] ELSE array[k + 1] ])

\* Array.prototype.join
RECURSIVE Join(_, _)
Join(strings, separator) ==
  IF strings = << >> THEN ""
  ELSE IF Len(strings) = 1 THEN strings[1]
  ELSE strings[1] \o separator \o Join(Tail(strings), separator)

\* start.toString() or `${start} Thru ${end}`
RangeText(start, end) ==
  IF start = end THEN ToString(start)
  ELSE ToString(start) \o " Thru " \o ToString(end)

\* the for loop and the final push; i counts from 1
RECURSIVE FormatLoop(_, _, _, _, _)
FormatLoop(sorted, i, start, end, ranges) ==
  IF i > Len(sorted) THEN Append(ranges, RangeText(start, end))
  ELSE IF sorted[i] = end + 1
       THEN FormatLoop(sorted, i + 1, start, sorted[i], ranges)
       ELSE FormatLoop(sorted, i + 1, sorted[i], sorted[i],
                       Append(ranges, RangeText(start, end)))

\* a slip: the ids taken in the order given, the sort left out
formatFixtureListUnsorted(fixtureIds) ==
  IF Len(fixtureIds) = 1 THEN ToString(fixtureIds[1])
  ELSE Join(FormatLoop(fixtureIds, 2, fixtureIds[1], fixtureIds[1], << >>), " + ")

formatFixtureList(fixtureIds) ==
  IF Len(fixtureIds) = 1 THEN ToString(fixtureIds[1])
  ELSE LET sorted == SortNumeric(fixtureIds)
       IN  Join(FormatLoop(sorted, 2, sorted[1], sorted[1], << >>), " + ")

---------------------------------------------------------------------------
(* The debounced sliders: ControlPanel (part_004, lines 41-144) and         *)
(* FixtureList.handleIndividualDimmer.  `panel` holds what the two          *)
(* components keep between events: the selection they render with, the      *)
(* local colour, the timer refs, the per-fixture timer Map, the runtime's   *)
(* table of pending timeouts, and two logs: the slider inputs handled and   *)
(* the store actions invoked.  The clock `now` counts milliseconds and      *)
(* moves in steps of 100 ms; a timeout runs at the instant it is due.       *)

\* the delay passed to setTimeout by every debounced handler
QuietPeriod == 300

\* the sliders of the control panel that share the pattern of
\* handleDimmerChange, and the store action each one invokes
UpdateAction ==
  [ dimmer |-> "updateDimmer", iris |-> "updateIris", focus |-> "updateFocus",
    zoom |-> "updateZoom", frost |-> "updateFrost" ]

initialPanel(selectedFixtures) ==
  [ selectedFixtures |-> selectedFixtures,
    localColor  |-> [r |-> 255, g |-> 255, b |-> 255],
    refs        |-> [ c \in DOMAIN UpdateAction \cup {"color"} |-> 0 ],
    dimmerTimers |-> << >>,
    timeouts    |-> {},
    nextTimer   |-> 1,
    inputs      |-> << >>,
    updates     |-> << >> ]

\* const hasSelection = selectedFixtures.length > 0
hasSelection(p) == Len(p.selectedFixtures) > 0

\* setTimeout(callback, delay) at time t: the handle returned is p.nextTimer
setTimeout(p, channel, callback, delay, t) ==
  [ p EXCEPT
      !.timeouts = @ \cup { [ id |-> p.nextTimer, due |-> t + delay,
                              channel |-> channel, callback |-> callback ] },
      !.nextTimer = @ + 1,
      !.inputs = Append(@, [ channel |-> channel, value |-> callback.value,
                             at |-> t ]) ]

\* clearTimeout(handle): a handle that has run or was cleared is ignored
clearTimeout(p, handle) ==
  [ p EXCEPT !.timeouts = { timer \in @ : timer.id # handle } ]

\* a slip: the pending timeout is left to run when a new input arrives
handleSliderChangeNoClear(p, slider, value, t) ==
  IF ~hasSelection(p) THEN p
  ELSE [ setTimeout(p, slider,
                    [ action |-> UpdateAction[slider],
                      fixtureIds |-> p.selectedFixtures, value |-> value ],
                    QuietPeriod, t)
         EXCEPT !.refs[slider] = p.nextTimer ]

\* handleDimmerChange, handleIrisChange, handleFocusChange, handleZoomChange,
\* handleFrostChange: the same text but for the names
handleSliderChange(p, slider, value, t) ==
  IF ~hasSelection(p) THEN p
  ELSE LET cleared == IF p.refs[slider] # 0
                      THEN clearTimeout(p, p.refs[slider]) ELSE p
       IN  [ setTimeout(cleared, slider,
                        [ action |-> UpdateAction[slider],
                          fixtureIds |-> p.selectedFixtures, value |-> value ],
                        QuietPeriod, t)
             EXCEPT !.refs[slider] = p.nextTimer ]

handleColorChange(p, component, value, t) ==
  IF ~hasSelection(p) THEN p
  ELSE LET newColor == [ p.localColor EXCEPT ![component] = value ]
           cleared  == IF p.refs.color # 0
                       THEN clearTimeout(p, p.refs.color) ELSE p
       IN  [ setTimeout(cleared, "color",
                        [ action |-> "updateColor",
                          fixtureIds |-> p.selectedFixtures, value |-> newColor ],
                        QuietPeriod, t)
             EXCEPT !.refs.color = p.nextTimer, !.localColor = newColor ]

\* dimmerTimers.get(fixtureId), 0 for undefined
MapGet(map, key) == IF key \in DOMAIN map THEN map[key] ELSE 0

\* the slider of fixture fixtureId in the fixture list
FixtureSlider(fixtureId) ==
  IF fixtureId = 1 THEN "fixture 1" ELSE "fixture 2"

handleIndividualDimmer(p, fixtureId, dimmer, t) ==
  LET existingTimer == MapGet(p.dimmerTimers, fixtureId)
      cleared == IF existingTimer # 0 THEN clearTimeout(p, existingTimer) ELSE p
      fixtureIds == IF Includes(p.selectedFixtures, fixtureId)
                       /\ Len(p.selectedFixtures) > 1
                    THEN p.selectedFixtures ELSE << fixtureId >>
  IN  [ setTimeout(cleared, FixtureSlider(fixtureId),
                   [ action |-> "updateDimmer", fixtureIds |-> fixtureIds,
                     value |-> dimmer, forget |-> fixtureId ],
                   QuietPeriod, t)
        EXCEPT !.dimmerTimers =
                 [ k \in DOMAIN @ \cup {fixtureId} |->
                     IF k = fixtureId THEN p.nextTimer ELSE @[k] ] ]

\* the runtime runs a timeout that is due: the store action is invoked, and
\* the fixture list's callback deletes its entry of the Map
runTimeout(p, timer, t) ==
  [ p EXCEPT
      !.timeouts = @ \ {timer},
      !.updates = Append(@, [ channel |-> timer.channel,
                              action |-> timer.callback.action,
                              fixtureIds |-> timer.callback.fixtureIds,
                              value |-> timer.callback.value, at |-> t ]),
      !.dimmerTimers =
        IF "forget" \in DOMAIN timer.callback
        THEN [ k \in DOMAIN @ \ {timer.callback.forget} |-> @[k] ]
        ELSE @ ]

\* the panels before any event
PanelIdle == panel = initialPanel(<< >>)

---------------------------------------------------------------------------
(* utils/telnet.ts: TelnetClient.  A command is the number of its place   *)
(* in the order the commands were passed to sendCommands.  `loops` counts *)
(* the processQueue calls that entered the while loop and have not left   *)
(* it, by the await they are suspended at; `sent` lists what sendCommand  *)
(* was given, with the connected flag at that moment.                     *)

initialTelnet ==
  [ connected |-> FALSE, commandQueue |-> << >>, isProcessing |-> FALSE,
    debounceTimer |-> FALSE, loops |-> [atSend |-> 0, atDelay |-> 0],
    sent |-> << >>, passed |-> 0 ]

sendCommand(t, command) ==
  [ t EXCEPT !.sent = Append(@, [ command |-> command,
                                  connected |-> t.connected ]) ]

\* one turn of the while loop, up to `await this.sendCommand(command)`
ShiftAndSend(t) ==
  LET command == Head(t.commandQueue)
  IN  [ sendCommand([ t EXCEPT !.commandQueue = Tail(@) ], command)
          EXCEPT !.loops.atSend = @ + 1 ]

processQueueUnguarded(t) ==
  IF t.commandQueue = << >> THEN t
  ELSE ShiftAndSend([ t EXCEPT !.isProcessing = TRUE ])

\* processQueue up to its first await
processQueue(t) ==
  IF t.isProcessing \/ t.commandQueue = << >> THEN t
  ELSE ShiftAndSend([ t EXCEPT !.isProcessing = TRUE ])

\* processQueue from the 10 ms delay on: the next turn, or the end of the loop
resumeProcessQueue(t) ==
  LET resumed == [ t EXCEPT !.loops.atDelay = @ - 1 ]
  IN  IF resumed.commandQueue # << >> THEN ShiftAndSend(resumed)
      ELSE [ resumed EXCEPT !.isProcessing = FALSE ]

sendCommands(t, commands, debounce) ==
  LET queued == [ t EXCEPT !.commandQueue = @ \o commands,
                           !.passed = @ + Len(commands) ]
  IN  IF debounce THEN [ queued EXCEPT !.debounceTimer = TRUE ]
      ELSE processQueue(queued)

telnetConnect(t) == [ t EXCEPT !.connected = TRUE ]

telnetDisconnect(t) == [ t EXCEPT !.connected = FALSE, !.commandQueue = << >> ]

ActiveLoops(t) == t.loops.atSend + t.loops.atDelay

---------------------------------------------------------------------------
(* stores/lightingStore.ts: initializeApi, call by call and await by      *)
(* await, with utils/grandma2-api.ts: connect.  `clients` lists the       *)
(* connected flag of every GrandMA2ApiClient made, `apiClient` is the     *)
(* place in it of the client the store holds, 0 for null.                 *)

initialApi ==
  [ clients |-> << >>, apiClient |-> 0, calls |-> << >> ]

\* initializeApi up to `await newClient.updateConfig(...)`
initializeApiBegin(a) ==
  LET disconnected ==
        IF a.apiClient # 0
        THEN [ a.clients EXCEPT ![a.apiClient] = FALSE ]
        ELSE a.clients
      newClient == Len(disconnected) + 1
  IN  [ a EXCEPT !.clients = Append(disconnected, FALSE),
                 !.calls = Append(@, [ at |-> "updateConfig",
                                       newClient |-> newClient,
                                       connected |-> FALSE ]) ]

\* updateConfig settles either way, connect runs up to the fetch of /health
initializeApiConnect(a, c) ==
  [ a EXCEPT !.calls[c].at = "health" ]

\* catch (error) of connect
connectFailed(a, c) ==
  [ a EXCEPT !.clients[a.calls[c].newClient] = FALSE,
             !.calls[c].at = "connect",
             !.calls[c].connected = FALSE ]

\* connect from the answer to /health on
connectHealth(a, c, ok) ==
  IF ok THEN [ a EXCEPT !.calls[c].at = "json" ]
  ELSE connectFailed(a, c)

\* connect from `await healthResponse.json()` on; a body that does not
\* parse is a status that is not ok
connectParsed(a, c, statusOk) ==
  IF statusOk
  THEN [ a EXCEPT !.clients[a.calls[c].newClient] = TRUE,
                  !.calls[c].at = "connect",
                  !.calls[c].connected = TRUE ]
  ELSE connectFailed(a, c)

\* initializeApi from `await newClient.connect()` on
initializeApiEnd(a, c) ==
  [ a EXCEPT !.apiClient = IF a.calls[c].connected
                           THEN a.calls[c].newClient ELSE @,
             !.calls[c].at = "returned" ]

---------------------------------------------------------------------------
(* utils/grandma2-api.ts: the command methods of GrandMA2ApiClient.  A    *)
(* call is a record of the method, whether a request was issued, what     *)
(* was logged and where the call is: awaiting fetch, awaiting             *)
(* response.json(), resolved or rejected.                                 *)

Methods ==
  { "sendPanTilt", "sendPanTiltBatch", "sendDimmer", "sendColor", "sendGobo",
    "sendIris", "sendFocus", "sendZoom", "sendFrost" }

initialSends == [ connected |-> FALSE, calls |-> << >> ]

rethrow(c) == [ c EXCEPT !.at = "rejected" ]

\* catch (error) { this.log(`... error: ${error}`); }
catch(c) == [ c EXCEPT !.at = "resolved", !.logged = "error" ]

\* a command method up to its first await
sendMethod(method, connected) ==
  LET c == [ method |-> method, connected |-> connected,
             requested |-> FALSE, logged |-> "none", at |-> "resolved" ]
  IN  IF method = "sendGobo" THEN [ c EXCEPT !.logged = "not supported" ]
      ELSE IF ~connected THEN [ c EXCEPT !.logged = "skipping" ]
      ELSE [ c EXCEPT !.requested = TRUE, !.at = "fetch" ]

FetchOutcomes == { "rejects", "response" }

\* from `await fetch(...)` on
sendMethodFetched(c, outcome) ==
  IF outcome = "rejects" THEN catch(c)
  ELSE [ c EXCEPT !.at = "json" ]

\* what response.json() gives: a rejection (the body is no JSON), null,
\* an object with ok true, an object with ok false or absent
JsonOutcomes == { "rejects", "null", "ok", "not ok" }

\* from `await response.json()` on
sendMethodParsed(c, outcome) ==
  IF outcome = "ok" THEN [ c EXCEPT !.at = "resolved", !.logged = "sent" ]
  ELSE catch(c)

---------------------------------------------------------------------------
\* no client has been made or used
NetIdle ==
  /\ telnet = initialTelnet
  /\ api = initialApi
  /\ sends = initialSends

---------------------------------------------------------------------------
(* Inputs *)

\* extent of the regular grid of target coordinates (in steps)
MaxGrid == 1

\* fixture 1 of defaultFixtures and the fixture of the documented scenario
FixturePositions ==
  { [x |-> 100, y |-> 500, z |-> 300], [x |-> 500, y |-> 1961, z |-> 845] }

PanOffsets == {-30000, 0, 10000}

TiltOffsets == {0, 30000}

\* the two default ranges of the store's revisions, a narrow one, a malformed one
PanRanges ==
  { [min |-> -270000, max |-> 270000], [min |-> 0, max |-> 360000],
    [min |-> -90000, max |-> 90000], [min |-> 90000, max |-> -90000] }

TiltRanges ==
  { [min |-> -134000, max |-> 134000], [min |-> -90000, max |-> 90000],
    [min |-> 90000, max |-> -90000] }

Fixtures ==
  { [ x |-> p.x, y |-> p.y, z |-> p.z,
      panOffset |-> po, tiltOffset |-> to,
      panInverted |-> pi, tiltInverted |-> ti,
      panRange |-> pr, tiltRange |-> tr ] :
    p \in FixturePositions, po \in PanOffsets, to \in TiltOffsets,
    pi \in BOOLEAN, ti \in BOOLEAN, pr \in PanRanges, tr \in TiltRanges }

TargetXs == { 100 * i : i \in 0 .. MaxGrid } \cup {500, 1100}

TargetYs == { 300 * i : i \in 0 .. MaxGrid } \cup {0, 500, 1961, 2232}

TargetZs == {0, 300, 845, 1000}

\* degrees handed to degreesToPercent: whole and half degrees in and around
\* the ranges
DegreeInputs ==
  { 500 * i : i \in 0 .. MaxGrid } \cup
  { -300000, -270000, -134000, -90000, -45000, 45000, 90000, 134000,
    180000, 270000, 360000, 400000 }

\* the ranges handed to degreesToPercent: those of the fixtures and an empty one
PercentRanges == PanRanges \cup TiltRanges \cup { [min |-> 0, max |-> 0] }

\* pixel coordinates: a click on the canvas
PixelCoords == { RatInt(k) : k \in { 25 * i : i \in 0 .. MaxGrid } \cup {1, 37, 400} }

\* real-world coordinates in metres: 0, 0.5, 4.5, 12, 19.61
RealCoords == { RatInt(0), Rat(1, 2), Rat(9, 2), RatInt(12), Rat(1961, 100) }

\* the store's default floor plan (12 m x 8 m at 50 px/m), the same plan on an
\* 800 px wide canvas (800 / 12 px/m), and a 6 m high plan at 62.5 px/m
FloorPlans ==
  { [width |-> RatInt(12), height |-> RatInt(8), pixelsPerMeter |-> RatInt(50)],
    [width |-> RatInt(12), height |-> RatInt(8), pixelsPerMeter |-> Rat(200, 3)],
    [width |-> RatInt(12), height |-> RatInt(6), pixelsPerMeter |-> Rat(125, 2)] }

\* beam angles: the default of 15 degrees, a zoom of 15 under an iris of 50 %,
\* and a wide beam
BeamAngles == {7500, 15000, 60000}

WellFormed(fixture) ==
  /\ fixture.panRange.min <= fixture.panRange.max
  /\ fixture.tiltRange.min <= fixture.tiltRange.max

---------------------------------------------------------------------------
(* The calls *)

\* the calls of calculatePanTilt a client can make
AimRequests ==
  { [ op |-> "calculatePanTilt", phase |-> "called", fixture |-> f,
      targetX |-> tx, targetY |-> ty, targetZ |-> tz ] :
    f \in Fixtures, tx \in TargetXs, ty \in TargetYs, tz \in TargetZs }

\* the calls of isTargetReachable a client can make
ReachRequests ==
  { [ op |-> "isTargetReachable", phase |-> "called", fixture |-> f,
      targetX |-> tx, targetY |-> ty ] :
    f \in Fixtures, tx \in TargetXs, ty \in TargetYs }

\* the calls of degreesToPercent a client can make
PercentRequests ==
  { [ op |-> "degreesToPercent", phase |-> "called",
      degrees |-> deg, min |-> r.min, max |-> r.max ] :
    deg \in DegreeInputs, r \in PercentRanges }

\* the calls of the four coordinate mappings on a fresh coordinate
MapRequests ==
  { [ op |-> o, phase |-> "called", floorPlan |-> fp, x |-> c[1], y |-> c[2],
      roundTrip |-> FALSE, origin |-> [x |-> c[1], y |-> c[2]] ] :
    o \in {"pixelToReal", "pixelToRealPlain"}, fp \in FloorPlans,
    c \in PixelCoords \X PixelCoords }
  \cup
  { [ op |-> o, phase |-> "called", floorPlan |-> fp, x |-> c[1], y |-> c[2],
      roundTrip |-> FALSE, origin |-> [x |-> c[1], y |-> c[2]] ] :
    o \in {"realToPixel", "realToPixelPlain"}, fp \in FloorPlans,
    c \in RealCoords \X RealCoords }

\* the calls of calculateLightCone the floor plan can make
ConeRequests ==
  { [ op |-> "calculateLightCone", phase |-> "called", fixture |-> f,
      targetX |-> tx, targetY |-> ty, beamAngle |-> b ] :
    f \in Fixtures, tx \in TargetXs, ty \in TargetYs, b \in BeamAngles }

InitCone == call \in ConeRequests /\ StoreIdle /\ PanelIdle /\ NetIdle

InitGeometry ==
  /\ call \in AimRequests \cup ReachRequests \cup PercentRequests \cup MapRequests
  /\ StoreIdle
  /\ PanelIdle
  /\ NetIdle

Called(op) == call.op = op /\ call.phase = "called"

Returned(op) == call.op = op /\ call.phase = "returned"

CallCalculatePanTilt ==
  /\ UNCHANGED <<storeVars, panel, netVars>>
  /\ Called("calculatePanTilt")
  /\ call' = [ op |-> "calculatePanTilt", phase |-> "returned",
               fixture |-> call.fixture, targetX |-> call.targetX,
               targetY |-> call.targetY, targetZ |-> call.targetZ,
               locals |-> calculatePanTiltLocals(call.fixture, call.targetX,
                                                 call.targetY, call.targetZ),
               result |-> calculatePanTilt(call.fixture, call.targetX,
                                           call.targetY, call.targetZ) ]

CallIsTargetReachable ==
  /\ UNCHANGED <<storeVars, panel, netVars>>
  /\ Called("isTargetReachable")
  /\ call' = [ op |-> "isTargetReachable", phase |-> "returned",
               fixture |-> call.fixture, targetX |-> call.targetX,
               targetY |-> call.targetY,
               locals |-> calculatePanTiltLocals(call.fixture, call.targetX,
                                                 call.targetY, 0),
               result |-> isTargetReachable(call.fixture, call.targetX,
                                            call.targetY) ]

CallDegreesToPercent ==
  /\ UNCHANGED <<storeVars, panel, netVars>>
  /\ Called("degreesToPercent")
  /\ call' = [ call EXCEPT !.phase = "returned" ]
               @@ [ result |-> degreesToPercent(call.degrees, call.min, call.max) ]

MapReturn(result) ==
  call' = [ call EXCEPT !.phase = "returned" ] @@ [ result |-> result ]

CallPixelToReal ==
  /\ UNCHANGED <<storeVars, panel, netVars>>
  /\ Called("pixelToReal")
  /\ MapReturn(pixelToReal(call.x, call.y, call.floorPlan))

CallRealToPixel ==
  /\ UNCHANGED <<storeVars, panel, netVars>>
  /\ Called("realToPixel")
  /\ MapReturn(realToPixel(call.x, call.y, call.floorPlan))

CallPixelToRealPlain ==
  /\ UNCHANGED <<storeVars, panel, netVars>>
  /\ Called("pixelToRealPlain")
  /\ MapReturn(pixelToRealPlain(call.x, call.y, call.floorPlan))

CallRealToPixelPlain ==
  /\ UNCHANGED <<storeVars, panel, netVars>>
  /\ Called("realToPixelPlain")
  /\ MapReturn(realToPixelPlain(call.x, call.y, call.floorPlan))

\* the caller converts the percentage degreesToPercent returned back to
\* degrees, with the same range
PercentBack ==
  /\ UNCHANGED <<storeVars, panel, netVars>>
  /\ Returned("degreesToPercent")
  /\ call' = [ op |-> "percentToDegrees", phase |-> "called",
               percent |-> call.result, min |-> call.min, max |-> call.max,
               roundTrip |-> TRUE, origin |-> call.degrees ]

CallPercentToDegrees ==
  /\ UNCHANGED <<storeVars, panel, netVars>>
  /\ Called("percentToDegrees")
  /\ call' = [ call EXCEPT !.phase = "returned" ]
               @@ [ result |-> percentToDegrees(call.percent, call.min, call.max) ]

\* the inverse mapping of the same revision
Inverse(op) ==
  CASE op = "pixelToReal"      -> "realToPixel"
    [] op = "realToPixel"      -> "pixelToReal"
    [] op = "pixelToRealPlain" -> "realToPixelPlain"
    [] op = "realToPixelPlain" -> "pixelToRealPlain"

\* the caller hands the coordinate a mapping returned to the inverse mapping,
\* with the same floor plan
MapBack ==
  /\ UNCHANGED <<storeVars, panel, netVars>>
  /\ call.op \in {"pixelToReal", "realToPixel", "pixelToRealPlain", "realToPixelPlain"}
  /\ call.phase = "returned"
  /\ ~call.roundTrip
  /\ call' = [ op |-> Inverse(call.op), phase |-> "called",
               floorPlan |-> call.floorPlan,
               x |-> call.result.x, y |-> call.result.y,
               roundTrip |-> TRUE, origin |-> call.origin ]

CallCalculateLightCone ==
  /\ UNCHANGED <<storeVars, panel, netVars>>
  /\ Called("calculateLightCone")
  /\ call' = [ call EXCEPT !.phase = "returned" ]
               @@ [ result |-> calculateLightCone(call.fixture, call.targetX,
                                                  call.targetY, call.beamAngle) ]

NextCone == CallCalculateLightCone

SpecCone == InitCone /\ [][NextCone]_vars

NextGeometry ==
  \/ CallCalculatePanTilt
  \/ CallIsTargetReachable
  \/ CallDegreesToPercent
  \/ PercentBack
  \/ CallPercentToDegrees
  \/ CallPixelToReal
  \/ CallRealToPixel
  \/ CallPixelToRealPlain
  \/ CallRealToPixelPlain
  \/ MapBack

SpecGeometry == InitGeometry /\ [][NextGeometry]_vars

---------------------------------------------------------------------------
(* The store's actions as steps: `last` records the action taken, its       *)
(* arguments and what it handed to the console client; `steps` counts the   *)
(* actions taken; `now` is the reading of Date.now().                       *)

MaxSteps == 3

\* the ids the user interface acts on: two fixtures of the six
SelectIds == {1, 2}

\* fixture ids aimed at: two fixtures, and an id no fixture has
AimIds == {1, 2, 7}

\* aim points (cm): one in front of the rig, and the spot below fixture 1
AimPoints == { [x |-> 500, y |-> 300], [x |-> 100, y |-> 500] }

\* the fixtureIds the panels pass: the selection (control panel, and fixture
\* list when the fixture is one of several selected) or one fixture
IdLists == { ids \in {state.selectedFixtures} : ids # << >> } \cup { << 1 >> }

\* Partial<Fixture> values for updateFixture
FixtureUpdates ==
  { [pan |-> 300000], [panRange |-> [min |-> -90000, max |-> 90000]] }

\* fixture heights typed into the height field (cm); the field's min is not
\* enforced on typed values
Heights == {845, -200}

PresetIds == { state.presets[i].id : i \in DOMAIN state.presets } \cup {-1}

InitStore ==
  /\ call = [op |-> "none", phase |-> "idle"]
  /\ StoreIdle
  /\ PanelIdle
  /\ NetIdle

StoreStep(op, args, s, sent, t) ==
  /\ steps < MaxSteps
  /\ state' = s
  /\ last' = [op |-> op, args |-> args, sent |-> sent]
  /\ steps' = steps + 1
  /\ now' = t
  /\ UNCHANGED <<call, panel, netVars>>

SelectFixture ==
  \E id \in SelectIds, multi \in BOOLEAN :
    StoreStep("selectFixture", << id, multi >>,
              selectFixture(state, id, multi), << >>, now)

SelectAllFixtures ==
  StoreStep("selectAllFixtures", << >>, selectAllFixtures(state), << >>, now)

ClearSelection ==
  StoreStep("clearSelection", << >>, clearSelection(state), << >>, now)

SelectFixtureById ==
  \E id \in SelectIds :
    StoreStep("selectFixtureById", << id >>, selectFixtureById(state, id),
              << >>, now)

UpdateFixture ==
  \E id \in SelectIds, updates \in FixtureUpdates :
    StoreStep("updateFixture", << id, updates >>,
              updateFixture(state, id, updates), << >>, now)

SetTargetPoint ==
  \E p \in AimPoints :
    StoreStep("setTargetPoint", << p.x, p.y >>,
              setTargetPoint(state, p.x, p.y), << >>, now)

AimFixtureAt ==
  \E fixtureId \in AimIds, p \in AimPoints :
    StoreStep("aimFixtureAt", << fixtureId, p.x, p.y >>,
              aimFixtureAt(state, fixtureId, p.x, p.y),
              aimFixtureAtSends(state, fixtureId, p.x, p.y), now)

UpdateDimmer ==
  \E fixtureIds \in IdLists :
    StoreStep("updateDimmer", << fixtureIds, 80 >>,
              updateDimmer(state, fixtureIds, 80),
              ClientCall(state, "sendDimmer", << fixtureIds, 80 >>), now)

UpdateColor ==
  \E fixtureIds \in IdLists :
    StoreStep("updateColor", << fixtureIds, 255, 0, 0 >>,
              updateColor(state, fixtureIds, 255, 0, 0),
              ClientCall(state, "sendColor", << fixtureIds, 255, 0, 0 >>), now)

UpdateGobo ==
  \E fixtureIds \in IdLists :
    StoreStep("updateGobo", << fixtureIds, 3 >>,
              updateGobo(state, fixtureIds, 3),
              ClientCall(state, "sendGobo", << fixtureIds, 3 >>), now)

UpdateIris ==
  \E fixtureIds \in IdLists :
    StoreStep("updateIris", << fixtureIds, 75 >>,
              updateIris(state, fixtureIds, 75),
              ClientCall(state, "sendIris", << fixtureIds, 75 >>), now)

\* Date.now() at the save: the reading of the save before, or a later one
SavePreset ==
  \E t \in {now, now + 1} :
    StoreStep("savePreset", << t >>, savePreset(state, t), << >>, t)

LoadPreset ==
  \E presetId \in PresetIds :
    StoreStep("loadPreset", << presetId >>, loadPreset(state, presetId),
              << >>, now)

DeletePreset ==
  \E presetId \in PresetIds :
    StoreStep("deletePreset", << presetId >>, deletePreset(state, presetId),
              << >>, now)

SetFloorPlan ==
  StoreStep("setFloorPlan", << 20, 10 >>,
            setFloorPlan(state, RatInt(20), RatInt(10)), << >>, now)

UpdateFixtureHeight ==
  \E height \in Heights :
    StoreStep("updateFixtureHeight", << height >>,
              updateFixtureHeight(state, height), << >>, now)

UpdateFixturePosition ==
  StoreStep("updateFixturePosition", << 2, 100, 500 >>,
            updateFixturePosition(state, 2, 100, 500), << >>, now)

AdjustFixtureSpacing ==
  StoreStep("adjustFixtureSpacing", << 150 >>,
            adjustFixtureSpacing(state, 150), << >>, now)

InitializeApi ==
  \E connected \in BOOLEAN :
    StoreStep("initializeApi", << connected >>,
              initializeApi(state, connected), << >>, now)

\* the select-all toggle of the fixture list
HandleSelectAll ==
  StoreStep("handleSelectAll", << >>, handleSelectAll(state), << >>, now)

\* the Clear button of the fixture list
HandleSelectNone ==
  StoreStep("handleSelectNone", << >>, handleSelectNone(state), << >>, now)

\* the store's actions other than updateFixture, which no component calls
NextStore ==
  \/ SelectFixture
  \/ SelectAllFixtures
  \/ ClearSelection
  \/ SelectFixtureById
  \/ SetTargetPoint
  \/ AimFixtureAt
  \/ UpdateDimmer
  \/ UpdateColor
  \/ UpdateGobo
  \/ UpdateIris
  \/ SavePreset
  \/ LoadPreset
  \/ DeletePreset
  \/ SetFloorPlan
  \/ UpdateFixtureHeight
  \/ UpdateFixturePosition
  \/ AdjustFixtureSpacing
  \/ InitializeApi
  \/ HandleSelectAll
  \/ HandleSelectNone

SpecStore == InitStore /\ [][NextStore]_vars

\* every action of the store
NextStoreAll == NextStore \/ UpdateFixture

SpecStoreAll == InitStore /\ [][NextStoreAll]_vars

---------------------------------------------------------------------------
(* The calls of the earlier calculatePanTilt (part_000) *)

NormalizingRequests ==
  { [ r EXCEPT !.op = "calculatePanTilt (part_000)" ] : r \in AimRequests }

InitNormalizing == call \in NormalizingRequests /\ StoreIdle /\ PanelIdle /\ NetIdle

CallCalculatePanTiltNormalizing ==
  /\ Called("calculatePanTilt (part_000)")
  /\ UNCHANGED <<storeVars, panel, netVars>>
  /\ call' = [ call EXCEPT !.phase = "returned" ]
               @@ [ locals |-> calculatePanTiltNormalizingLocals(
                                 call.fixture, call.targetX, call.targetY,
                                 call.targetZ) ]

NextNormalizing == CallCalculatePanTiltNormalizing

SpecNormalizing == InitNormalizing /\ [][NextNormalizing]_vars

---------------------------------------------------------------------------
(* Both revisions of calculatePanTilt on fixtures whose pan offset carries  *)
(* the calibrated pan beyond a half turn                                    *)

\* pan offsets of 20, -20 and 110 degrees
WideOffsets == {20000, -20000, 110000}

\* pan ranges of a turn or more
TurnRanges ==
  { [min |-> -270000, max |-> 270000], [min |-> 0, max |-> 360000],
    [min |-> -180000, max |-> 180000] }

WrapFixtures ==
  { [ x |-> p.x, y |-> p.y, z |-> p.z,
      panOffset |-> po, tiltOffset |-> 0,
      panInverted |-> pi, tiltInverted |-> FALSE,
      panRange |-> pr, tiltRange |-> [min |-> -134000, max |-> 134000] ] :
    p \in FixturePositions, po \in WideOffsets, pi \in BOOLEAN,
    pr \in TurnRanges }

WrapRequests ==
  { [ op |-> o, phase |-> "called", fixture |-> f,
      targetX |-> tx, targetY |-> ty, targetZ |-> 0 ] :
    o \in {"calculatePanTilt", "calculatePanTilt (part_000)"},
    f \in WrapFixtures, tx \in TargetXs, ty \in TargetYs }

InitWrap == call \in WrapRequests /\ StoreIdle /\ PanelIdle /\ NetIdle

NextWrap == CallCalculatePanTilt \/ CallCalculatePanTiltNormalizing

SpecWrap == InitWrap /\ [][NextWrap]_vars

---------------------------------------------------------------------------
(* The calls of formatFixtureList *)

\* largest of the consecutive fixture ids
MaxId == 4

\* fixture ids: 1 .. MaxId, and two ids of two digits
IdPool == 1 .. MaxId \cup {10, 11}

\* every sequence of n distinct ids
RECURSIVE DistinctSeqs(_)
DistinctSeqs(n) ==
  IF n = 0 THEN { << >> }
  ELSE UNION { { Append(q, id) : id \in IdPool \ { q[i] : i \in DOMAIN q } } :
               q \in DistinctSeqs(n - 1) }

FormatRequests ==
  { [ op |-> o, phase |-> "called", fixtureIds |-> ids ] :
    o \in { "TelnetClient.formatFixtureList",
            "GrandMA2ApiClient.formatFixtureList" },
    ids \in UNION { DistinctSeqs(n) : n \in 1 .. Cardinality(IdPool) } }

InitFormat == call \in FormatRequests /\ StoreIdle /\ PanelIdle /\ NetIdle

TelnetFormatFixtureList ==
  /\ Called("TelnetClient.formatFixtureList")
  /\ UNCHANGED <<storeVars, panel, netVars>>
  /\ call' = [ call EXCEPT !.phase = "returned" ]
               @@ [ result |-> formatFixtureList(call.fixtureIds) ]

ApiFormatFixtureList ==
  /\ Called("GrandMA2ApiClient.formatFixtureList")
  /\ UNCHANGED <<storeVars, panel, netVars>>
  /\ call' = [ call EXCEPT !.phase = "returned" ]
               @@ [ result |-> formatFixtureList(call.fixtureIds) ]

NextFormat == TelnetFormatFixtureList \/ ApiFormatFixtureList

SpecFormat == InitFormat /\ [][NextFormat]_vars

---------------------------------------------------------------------------
(* The TelnetClient's methods, its timer and its awaits as steps *)

\* commands passed to sendCommands in one behaviour
MaxCommands == 5

InitTelnet ==
  /\ call = [op |-> "none", phase |-> "idle"]
  /\ StoreIdle
  /\ PanelIdle
  /\ NetIdle

TelnetFrame == UNCHANGED <<call, storeVars, panel, api, sends>>

\* the commands numbered after those passed so far
NextCommands(n) == [ i \in 1..n |-> telnet.passed + i ]

TelnetSendCommands(n, debounce) ==
  /\ telnet.passed + n <= MaxCommands
  /\ telnet' = sendCommands(telnet, NextCommands(n), debounce)
  /\ TelnetFrame

TelnetSendPanTilt == TelnetSendCommands(2, TRUE)

TelnetSendDimmer == TelnetSendCommands(1, FALSE)

TelnetSendColor == TelnetSendCommands(3, FALSE)

DebounceTimerFires ==
  /\ telnet.debounceTimer
  /\ telnet' = processQueue([ telnet EXCEPT !.debounceTimer = FALSE ])
  /\ TelnetFrame

SendCommandSettles ==
  /\ telnet.loops.atSend > 0
  /\ telnet' = [ telnet EXCEPT !.loops.atSend = @ - 1,
                               !.loops.atDelay = @ + 1 ]
  /\ TelnetFrame

DelayElapses ==
  /\ telnet.loops.atDelay > 0
  /\ telnet' = resumeProcessQueue(telnet)
  /\ TelnetFrame

TelnetConnect ==
  /\ ~telnet.connected
  /\ telnet' = telnetConnect(telnet)
  /\ TelnetFrame

TelnetDisconnect ==
  /\ telnet' = telnetDisconnect(telnet)
  /\ TelnetFrame

NextTelnetQueue ==
  \/ TelnetSendPanTilt
  \/ TelnetSendDimmer
  \/ TelnetSendColor
  \/ DebounceTimerFires
  \/ SendCommandSettles
  \/ DelayElapses
  \/ TelnetConnect

NextTelnet == NextTelnetQueue \/ TelnetDisconnect

SpecTelnet == InitTelnet /\ [][NextTelnet]_vars

\* a client that is never disconnected; a timer that is set runs out, a
\* promise that is awaited settles
SpecTelnetQueue ==
  /\ InitTelnet
  /\ [][NextTelnetQueue]_vars
  /\ WF_vars(DebounceTimerFires)
  /\ WF_vars(SendCommandSettles)
  /\ WF_vars(DelayElapses)

---------------------------------------------------------------------------
(* The calls of initializeApi as steps *)

\* calls of initializeApi in one behaviour
MaxInitCalls == 3

InitApi ==
  /\ call = [op |-> "none", phase |-> "idle"]
  /\ StoreIdle
  /\ PanelIdle
  /\ NetIdle

ApiFrame == UNCHANGED <<call, storeVars, panel, telnet, sends>>

CallsAt(at) == { c \in DOMAIN api.calls : api.calls[c].at = at }

InitializeApiBegin ==
  /\ Len(api.calls) < MaxInitCalls
  /\ api' = initializeApiBegin(api)
  /\ ApiFrame

InitializeApiConnect ==
  \E c \in CallsAt("updateConfig") :
    /\ api' = initializeApiConnect(api, c)
    /\ ApiFrame

ConnectHealth ==
  \E c \in CallsAt("health"), ok \in BOOLEAN :
    /\ api' = connectHealth(api, c, ok)
    /\ ApiFrame

ConnectParsed ==
  \E c \in CallsAt("json"), statusOk \in BOOLEAN :
    /\ api' = connectParsed(api, c, statusOk)
    /\ ApiFrame

InitializeApiEnd ==
  \E c \in CallsAt("connect") :
    /\ api' = initializeApiEnd(api, c)
    /\ ApiFrame

NextApi ==
  \/ InitializeApiBegin
  \/ InitializeApiConnect
  \/ ConnectHealth
  \/ ConnectParsed
  \/ InitializeApiEnd

SpecApi == InitApi /\ [][NextApi]_vars

---------------------------------------------------------------------------
(* The command methods of a GrandMA2ApiClient as steps *)

\* calls of command methods in one behaviour
MaxCalls == 2

InitSends ==
  /\ call = [op |-> "none", phase |-> "idle"]
  /\ StoreIdle
  /\ PanelIdle
  /\ NetIdle

SendsFrame == UNCHANGED <<call, storeVars, panel, telnet, api>>

\* connect comes to its end
SendsConnect ==
  \E reachable \in BOOLEAN :
    /\ sends' = [ sends EXCEPT !.connected = reachable ]
    /\ SendsFrame

SendsDisconnect ==
  /\ sends' = [ sends EXCEPT !.connected = FALSE ]
  /\ SendsFrame

SendMethod ==
  \E method \in Methods :
    /\ Len(sends.calls) < MaxCalls
    /\ sends' = [ sends EXCEPT
                    !.calls = Append(@, sendMethod(method, sends.connected)) ]
    /\ SendsFrame

SendMethodFetched ==
  \E i \in DOMAIN sends.calls, outcome \in FetchOutcomes :
    /\ sends.calls[i].at = "fetch"
    /\ sends' = [ sends EXCEPT
                    !.calls[i] = sendMethodFetched(@, outcome) ]
    /\ SendsFrame

SendMethodParsed ==
  \E i \in DOMAIN sends.calls, outcome \in JsonOutcomes :
    /\ sends.calls[i].at = "json"
    /\ sends' = [ sends EXCEPT
                    !.calls[i] = sendMethodParsed(@, outcome) ]
    /\ SendsFrame

NextSends ==
  \/ SendsConnect
  \/ SendsDisconnect
  \/ SendMethod
  \/ SendMethodFetched
  \/ SendMethodParsed

SpecSends == InitSends /\ [][NextSends]_vars

---------------------------------------------------------------------------
(* The slider events and the timer runs as steps *)

\* slider inputs handled in one behaviour
MaxInputs == 2

\* the clock stops after this many steps of 100 ms
MaxTicks == 7

\* the selections the panels render with
Selections == { << >>, << 1 >>, << 2, 1 >> }

\* the value of an input: the number of inputs before it plus one, so that no
\* two inputs carry the same value
FreshValue == Len(panel.inputs) + 1

InitPanel ==
  /\ call = [op |-> "none", phase |-> "idle"]
  /\ StoreIdle
  /\ panel \in { initialPanel(ids) : ids \in Selections }
  /\ NetIdle

\* the timeouts that are due
Due == { timer \in panel.timeouts : timer.due <= now }

\* a slider can be moved: an input is left, no timeout is waiting to run
CanInput == Len(panel.inputs) < MaxInputs /\ Due = {}

PanelFrame == UNCHANGED <<call, state, last, steps, netVars>>

\* sliders are disabled without a selection (disabled={!hasSelection})
SliderChange ==
  \E slider \in DOMAIN UpdateAction :
    /\ CanInput /\ hasSelection(panel)
    /\ panel' = handleSliderChange(panel, slider, FreshValue, now)
    /\ UNCHANGED now /\ PanelFrame

ColorChange ==
  \E component \in {"r", "g", "b"} :
    /\ CanInput /\ hasSelection(panel)
    /\ panel' = handleColorChange(panel, component, FreshValue, now)
    /\ UNCHANGED now /\ PanelFrame

IndividualDimmer ==
  \E fixtureId \in {1, 2} :
    /\ CanInput
    /\ panel' = handleIndividualDimmer(panel, fixtureId, FreshValue, now)
    /\ UNCHANGED now /\ PanelFrame

RunTimeout ==
  \E timer \in Due :
    /\ \A other \in Due : timer.id <= other.id
    /\ panel' = runTimeout(panel, timer, now)
    /\ UNCHANGED now /\ PanelFrame

Tick ==
  /\ Due = {}
  /\ now < 100 * MaxTicks
  /\ now' = now + 100
  /\ UNCHANGED panel /\ PanelFrame

NextPanel ==
  \/ SliderChange
  \/ ColorChange
  \/ IndividualDimmer
  \/ RunTimeout
  \/ Tick

SpecPanel == InitPanel /\ [][NextPanel]_vars

---------------------------------------------------------------------------
(* Properties of calculatePanTilt and isTargetReachable (utils/geometry.ts) *)

InRange(v, range) == range.min <= v /\ v <= range.max

\* C1: for a fixture whose ranges are well formed (min <= max), the pan and
\* the tilt calculatePanTilt returns lie inside panRange and tiltRange
AimWithinRanges ==
  (Returned("calculatePanTilt") /\ WellFormed(call.fixture)) =>
     /\ InRange(call.result.pan, call.fixture.panRange)
     /\ InRange(call.result.tilt, call.fixture.tiltRange)

\* a call in which both the pan and the tilt had to be brought back into range
AimWithinRangesWitness ==
  /\ Returned("calculatePanTilt") /\ WellFormed(call.fixture)
  /\ ~InRange(call.locals.panWrapped, call.fixture.panRange)
  /\ call.locals.tiltCalibrated > call.fixture.tiltRange.max
  /\ InRange(call.result.pan, call.fixture.panRange)
  /\ call.result.tilt = call.fixture.tiltRange.max

\* C2: isTargetReachable answers TRUE exactly when the pan and tilt before
\* any clamping lie inside the ranges (so FALSE when the tilt lies outside)
ReachableIffUnclampedInRange ==
  (Returned("isTargetReachable") /\ WellFormed(call.fixture)) =>
     (call.result <=>
        /\ InRange(call.locals.panWrapped, call.fixture.panRange)
        /\ InRange(call.locals.tiltCalibrated, call.fixture.tiltRange))

\* C3: the value entering range handling is (inverted ? -raw : raw) + offset,
\* for pan and for tilt; with panInverted, panOffset = 10 and a raw pan of 30
\* degrees the returned pan is -20 degrees (to the 0.002 degrees of atan2)
InversionBeforeOffset ==
  Returned("calculatePanTilt") =>
    LET f == call.fixture
        l == call.locals
    IN  /\ l.panCalibrated
             = (IF f.panInverted THEN -l.panRaw ELSE l.panRaw) + f.panOffset
        /\ l.tiltCalibrated
             = (IF f.tiltInverted THEN -l.tiltRaw ELSE l.tiltRaw) + f.tiltOffset
        /\ ( /\ f.panInverted /\ f.panOffset = 10000
             /\ Abs(l.panRaw - 30000) <= 2
             /\ InRange(-20000 - 2, f.panRange) /\ InRange(-20000 + 2, f.panRange) )
           => Abs(call.result.pan - (-20000)) <= 2

\* the example of C3: inverted pan, offset 10, raw pan 30, result -20
InversionBeforeOffsetWitness ==
  /\ Returned("calculatePanTilt")
  /\ call.fixture.panInverted /\ call.fixture.panOffset = 10000
  /\ Abs(call.locals.panRaw - 30000) <= 2
  /\ Abs(call.result.pan + 20000) <= 2

\* C4: when the pan range spans a full turn, the pan after the wrap step and
\* before the clamp lies in (-180, 180]
WrapIntoHalfOpenTurn ==
  ( /\ Returned("calculatePanTilt") /\ WellFormed(call.fixture)
    /\ spansFullTurn(call.fixture.panRange) ) =>
     (-180000 < call.locals.panWrapped /\ call.locals.panWrapped <= 180000)

\* C5: for a target with the fixture's x and y the raw tilt is +90 when the
\* fixture is above the target and -90 otherwise; without inversion and offset
\* and with a tilt range containing [-90, 90] that is the tilt returned
PoleTilt ==
  (Returned("calculatePanTilt") /\ call.locals.dx = 0 /\ call.locals.dy = 0) =>
    LET f == call.fixture
        expected == IF f.z > call.targetZ THEN 90000 ELSE -90000
    IN  /\ call.locals.tiltRaw = expected
        /\ call.result.tilt \in Int
        /\ ( /\ ~f.tiltInverted /\ f.tiltOffset = 0
             /\ f.tiltRange.min <= -90000 /\ 90000 <= f.tiltRange.max )
           => call.result.tilt = expected

\* a target straight below the fixture: the tilt returned is +90
PoleTiltWitness ==
  /\ Returned("calculatePanTilt")
  /\ call.locals.dx = 0 /\ call.locals.dy = 0
  /\ call.fixture.z > call.targetZ
  /\ ~call.fixture.tiltInverted /\ call.fixture.tiltOffset = 0
  /\ call.fixture.tiltRange.min <= -90000 /\ 90000 <= call.fixture.tiltRange.max
  /\ call.result.tilt = 90000

\* C6: for a target off the fixture's vertical (h > 0) the raw tilt is 0 when
\* the target is level with the fixture, positive when it is below, negative
\* when it is above
RawTiltIsElevation ==
  ( /\ Returned("calculatePanTilt") /\ WellFormed(call.fixture)
    /\ (call.locals.dx # 0 \/ call.locals.dy # 0) ) =>
     /\ (call.fixture.z = call.targetZ) => call.locals.tiltRaw = 0
     /\ (call.fixture.z > call.targetZ) => call.locals.tiltRaw > 0
     /\ (call.fixture.z < call.targetZ) => call.locals.tiltRaw < 0

\* the scenario of C7: the fixture at (5, 19.61, 8.45), no inversion, no
\* offset, tilt range [-134, 134], aimed at the floor point (5, 0, 0)
Scenario ==
  /\ Returned("calculatePanTilt")
  /\ call.fixture.x = 500 /\ call.fixture.y = 1961 /\ call.fixture.z = 845
  /\ ~call.fixture.panInverted /\ ~call.fixture.tiltInverted
  /\ call.fixture.panOffset = 0 /\ call.fixture.tiltOffset = 0
  /\ call.fixture.tiltRange = [min |-> -134000, max |-> 134000]
  /\ call.targetX = 500 /\ call.targetY = 0 /\ call.targetZ = 0

\* C7 as stated: in the scenario, with any pan range that contains 0, the pan
\* returned is 0 and the tilt is atan2(h, dz), both within 0.01 degrees
\* (atan2(19.61, 8.45) is 66.6887 degrees by hand: 66689 millidegrees)
ScenarioPanZero ==
  (Scenario /\ InRange(0, call.fixture.panRange)) =>
     /\ Abs(call.result.pan) <= 10
     /\ Abs(call.result.tilt - 66689) <= 10

\* C7 amended: in the scenario, with the pan range [-270, 270], the pan
\* returned has magnitude 180 degrees (the target lies due -Y of the fixture)
\* and the tilt is atan2(h, dz) within 0.01 degrees
ScenarioPanHalfTurn ==
  (Scenario /\ call.fixture.panRange = [min |-> -270000, max |-> 270000]) =>
     /\ Abs(call.result.pan) = 180000
     /\ Abs(call.result.tilt - 66689) <= 10

ScenarioPanHalfTurnWitness ==
  /\ Scenario /\ call.fixture.panRange = [min |-> -270000, max |-> 270000]
  /\ call.result.pan = -180000
  /\ call.locals.h = 19610 /\ call.locals.dz = 845

\* C8: the raw pan lies in [-180, 180], is 0 due +Y, +90 due +X, -90 due -X,
\* and has the sign of dx whenever dx is not 0
RawPanBearing ==
  Returned("calculatePanTilt") =>
    LET l == call.locals
    IN  /\ -180000 <= l.panRaw /\ l.panRaw <= 180000
        /\ (l.dx = 0 /\ l.dy > 0) => l.panRaw = 0
        /\ (l.dx > 0 /\ l.dy = 0) => l.panRaw = 90000
        /\ (l.dx < 0 /\ l.dy = 0) => l.panRaw = -90000
        /\ (l.dx # 0) => Sign(l.panRaw) = Sign(l.dx)

\* a target due -X of the fixture: the raw pan is -90
RawPanBearingWitness ==
  /\ Returned("calculatePanTilt")
  /\ call.locals.dx < 0 /\ call.locals.dy = 0
  /\ call.locals.panRaw = -90000

---------------------------------------------------------------------------
(* Properties of the coordinate mappings and of degreesToPercent *)

\* C9: with pixelsPerMeter > 0, mapping a coordinate with pixelToReal and the
\* result with realToPixel, or the other way round, gives the coordinate back,
\* for the rotated mapping and for the plain one
MapRoundTrip ==
  ( /\ call.op \in {"pixelToReal", "realToPixel", "pixelToRealPlain", "realToPixelPlain"}
    /\ call.phase = "returned" /\ call.roundTrip
    /\ call.floorPlan.pixelsPerMeter.n > 0 ) =>
     call.result = call.origin

\* a click at pixel (37, 400) mapped by the rotated pixelToReal to a point with
\* other coordinates, and mapped back by realToPixel
MapRoundTripWitness ==
  /\ call.op = "realToPixel" /\ call.phase = "returned" /\ call.roundTrip
  /\ call.origin = [x |-> RatInt(37), y |-> RatInt(400)]
  /\ call.x # call.origin.x /\ call.y # call.origin.y
  /\ call.result = call.origin

\* C10: for min < max, degreesToPercent lies in [0, 100], is 0 for deg <= min,
\* 100 for deg >= max, (deg - min) / (max - min) * 100 in between, and does
\* not decrease as deg grows
PercentClampedLinear ==
  (Returned("degreesToPercent") /\ call.min < call.max) =>
    LET r == call.result
    IN  /\ ~r.nan
        /\ 0 <= r.n /\ r.n <= 100 * r.d
        /\ (call.degrees <= call.min) => r.n = 0
        /\ (call.degrees >= call.max) => r.n = 100 * r.d
        /\ (call.min < call.degrees /\ call.degrees < call.max) =>
             [n |-> r.n, d |-> r.d]
               = Rat((call.degrees - call.min) * 100, call.max - call.min)
        /\ \A d2 \in DegreeInputs :
             (call.degrees <= d2) =>
               LET r2 == degreesToPercent(d2, call.min, call.max)
               IN  ~r2.nan /\ r.n * r2.d <= r2.n * r.d

\* a call strictly inside the range: 45 degrees in [-134, 134] is 66.79 %
PercentClampedLinearWitness ==
  /\ Returned("degreesToPercent")
  /\ call.min = -134000 /\ call.max = 134000 /\ call.degrees = 45000
  /\ call.result = [nan |-> FALSE, n |-> 4475, d |-> 67]

\* C11: for min < max and min <= deg <= max, percentToDegrees applied to
\* degreesToPercent(deg, min, max) gives deg back
PercentRoundTrip ==
  ( /\ Returned("percentToDegrees") /\ call.roundTrip
    /\ call.min < call.max
    /\ call.min <= call.origin /\ call.origin <= call.max ) =>
     call.result = [nan |-> FALSE, n |-> call.origin, d |-> 1]

\* 45 degrees in [-134, 134]: 66.79 % and back to 45 degrees
PercentRoundTripWitness ==
  /\ Returned("percentToDegrees") /\ call.roundTrip
  /\ call.min = -134000 /\ call.max = 134000 /\ call.origin = 45000
  /\ call.percent = [nan |-> FALSE, n |-> 4475, d |-> 67]
  /\ call.result = [nan |-> FALSE, n |-> 45000, d |-> 1]

\* C12: a call of degreesToPercent with min >= max, or of calculatePanTilt
\* with panRange.min > panRange.max or tiltRange.min > tiltRange.max, does
\* not return a value: it ends in an error
MalformedRangeFailsLoudly ==
  /\ (call.op = "degreesToPercent" /\ call.min >= call.max) =>
        call.phase # "returned"
  /\ (call.op = "calculatePanTilt" /\ ~WellFormed(call.fixture)) =>
        call.phase # "returned"

---------------------------------------------------------------------------
(* Properties of calculateLightCone *)

\* C13: calculateLightCone returns the target as the centre, unchanged, and
\* as rotation the pan calculatePanTilt returns for the same fixture and target
ConeCentredOnTarget ==
  Returned("calculateLightCone") =>
    /\ call.result.centerX = call.targetX
    /\ call.result.centerY = call.targetY
    /\ call.result.rotation
         = calculatePanTilt(call.fixture, call.targetX, call.targetY, 0).pan

\* the documented cone: beam angle 15 degrees from a height of 8.45 m has the
\* radii 2.264 m and 1.811 m; here with a pan that the range had to clamp
ConeCentredOnTargetWitness ==
  /\ Returned("calculateLightCone")
  /\ call.fixture.z = 845 /\ call.beamAngle = 15000
  /\ Abs(call.result.radiusX - 2264) <= 1
  /\ Abs(call.result.radiusY - 1811) <= 1
  /\ call.fixture.panRange = [min |-> -90000, max |-> 90000]
  /\ call.result.rotation = 90000
  /\ call.result.centerX = call.targetX /\ call.result.centerY = call.targetY

---------------------------------------------------------------------------
(* Properties of the lighting store *)

\* the four fields an aim sets, of every fixture
AimFields(s) ==
  Map(s.fixtures, LAMBDA f : [ pan |-> f.pan, tilt |-> f.tilt,
                               targetX |-> f.targetX, targetY |-> f.targetY ])

\* C14, as stated: every store action other than aimFixtureAt leaves the pan,
\* tilt, targetX and targetY of every fixture unchanged
OnlyAimMovesFixtures ==
  [][ last'.op # "aimFixtureAt" => AimFields(state)' = AimFields(state) ]_vars

\* C14, amended: every store action other than aimFixtureAt, loadPreset and
\* updateFixture leaves the pan, tilt, targetX and targetY of every fixture
\* unchanged; loadPreset leaves them or sets them to the values a preset holds
OnlyAimPresetUpdateMoveFixtures ==
  [][ /\ last'.op \notin {"aimFixtureAt", "loadPreset", "updateFixture"}
         => AimFields(state)' = AimFields(state)
      /\ last'.op = "loadPreset"
         => \/ AimFields(state)' = AimFields(state)
            \/ \E i \in DOMAIN state.presets :
                 AimFields(state)' = AimFields(state.presets[i])
    ]_vars

\* a dimmer update of an aimed fixture: the aim is still there
OnlyAimPresetUpdateMoveFixturesWitness ==
  /\ last.op = "updateDimmer"
  /\ state.fixtures[1].dimmer = 80
  /\ state.fixtures[1].pan # 0
  /\ state.fixtures[1].targetX = 500

\* C15: in every state the store reaches by the actions the components call,
\* every fixture's pan lies in its panRange and its tilt in its tiltRange
FixturesWithinRanges ==
  \A i \in DOMAIN state.fixtures :
    /\ InRange(state.fixtures[i].pan, state.fixtures[i].panRange)
    /\ InRange(state.fixtures[i].tilt, state.fixtures[i].tiltRange)

\* fixture 2, below the floor, aimed at a point 2 m beside it: 135 degrees of
\* tilt, held at the limit of 134
FixturesWithinRangesWitness ==
  /\ last.op = "aimFixtureAt"
  /\ state.fixtures[2].z = -200
  /\ state.fixtures[2].targetX = 100 /\ state.fixtures[2].targetY = 500
  /\ state.fixtures[2].tilt = 134000

\* C16: aimFixtureAt(id, x, y) on an existing id sets that fixture's pan and
\* tilt to calculatePanTilt(fixture, x, y, 0) of the fixture before the call,
\* its targetX, targetY to x, y and targetPoint to (x, y), and changes nothing
\* else; on an unknown id it changes nothing and sends nothing
AimSetsOnlyTheAim ==
  [][ last'.op = "aimFixtureAt" =>
        LET id      == last'.args[1]
            x       == last'.args[2]
            y       == last'.args[3]
            fixture == FindById(state.fixtures, id)
        IN  IF fixture = Null
            THEN state' = state /\ last'.sent = << >>
            ELSE /\ DOMAIN state'.fixtures = DOMAIN state.fixtures
                 /\ \A i \in DOMAIN state.fixtures :
                      state'.fixtures[i] =
                        IF state.fixtures[i].id = id
                        THEN [ state.fixtures[i] EXCEPT
                                 !.pan  = calculatePanTilt(fixture, x, y, 0).pan,
                                 !.tilt = calculatePanTilt(fixture, x, y, 0).tilt,
                                 !.targetX = x, !.targetY = y ]
                        ELSE state.fixtures[i]
                 /\ state'.targetPoint = [x |-> x, y |-> y]
                 /\ state'.selectedFixtures = state.selectedFixtures
                 /\ state'.presets = state.presets
                 /\ state'.floorPlan = state.floorPlan
                 /\ state'.apiClient = state.apiClient
    ]_vars

\* fixture 1 aimed while fixture 2 is selected and dimmed
AimSetsOnlyTheAimWitness ==
  /\ last.op = "aimFixtureAt" /\ last.args[1] = 1
  /\ state.fixtures[1].pan # 0 /\ state.fixtures[1].targetX = 500
  /\ state.targetPoint = [x |-> 500, y |-> 300]
  /\ state.selectedFixtures = << 2 >>
  /\ state.fixtures[2].dimmer = 80 /\ state.fixtures[2].pan = 0

\* a percentage between 0 and 100
IsPercent(p) == ~p.nan /\ 0 <= p.n /\ p.n <= 100 * p.d

---------------------------------------------------------------------------
(* Properties of formatFixtureList *)

\* the maximal runs of consecutive numbers of a set, as <<first, last>> pairs
MaximalRuns(S) ==
  { << a, b >> \in S \X S :
      /\ a <= b
      /\ \A k \in a .. b : k \in S
      /\ a - 1 \notin S /\ b + 1 \notin S }

\* the runs in ascending order
RECURSIVE Ascending(_)
Ascending(runs) ==
  IF runs = {} THEN << >>
  ELSE LET r == CHOOSE r \in runs : \A q \in runs : r[1] <= q[1]
       IN  << r >> \o Ascending(runs \ {r})

\* C18: for a non-empty list of distinct ids in any order formatFixtureList
\* returns the maximal runs of consecutive ids in ascending order, a run of
\* one written 'a', a longer one 'a Thru b', joined by ' + '; the runs are
\* disjoint, not adjacent, and cover exactly the ids given
FormatsMaximalRuns ==
  ( /\ call.op \in { "TelnetClient.formatFixtureList",
                     "GrandMA2ApiClient.formatFixtureList" }
    /\ call.phase = "returned" ) =>
    LET ids  == { call.fixtureIds[i] : i \in DOMAIN call.fixtureIds }
        runs == Ascending(MaximalRuns(ids))
    IN  /\ call.result
             = Join([ i \in DOMAIN runs |->
                        IF runs[i][1] = runs[i][2] THEN ToString(runs[i][1])
                        ELSE ToString(runs[i][1]) \o " Thru "
                               \o ToString(runs[i][2]) ], " + ")
        /\ UNION { r[1] .. r[2] : r \in MaximalRuns(ids) } = ids
        /\ \A i, j \in DOMAIN runs : i < j => runs[i][2] + 1 < runs[j][1]
        /\ Len(call.fixtureIds) = 1 => call.result = ToString(call.fixtureIds[1])

\* ids given out of order, with a run, a single id and a run of two digits
FormatsMaximalRunsWitness ==
  /\ call.op = "TelnetClient.formatFixtureList" /\ call.phase = "returned"
  /\ call.fixtureIds = << 11, 3, 1, 10, 2, 4 >>
  /\ call.result = "1 Thru 4 + 10 Thru 11"

---------------------------------------------------------------------------
(* Properties of the debounced sliders *)

\* input k is the last of its burst: no later input of the same slider
\* follows it by less than the quiet period
LastOfBurst(k) ==
  \A m \in DOMAIN panel.inputs :
    (m > k /\ panel.inputs[m].channel = panel.inputs[k].channel)
      => panel.inputs[m].at - panel.inputs[k].at >= QuietPeriod

\* the store actions invoked with the value of input k
UpdatesFor(k) ==
  { u \in DOMAIN panel.updates :
      /\ panel.updates[u].channel = panel.inputs[k].channel
      /\ panel.updates[u].value = panel.inputs[k].value }

\* the update of input k is pending
Pending(k) ==
  \E timer \in panel.timeouts :
    /\ timer.channel = panel.inputs[k].channel
    /\ timer.callback.value = panel.inputs[k].value

---------------------------------------------------------------------------
(* Properties of the earlier calculatePanTilt (part_000) *)

\* C20: in the calculatePanTilt of part_000 the pan before normalisation is
\* (panInverted ? -pan_raw : pan_raw) + panOffset and the tilt returned is
\* (tiltInverted ? -tilt_raw : tilt_raw) + tiltOffset
NormalizingInvertsBeforeOffset ==
  (Returned("calculatePanTilt (part_000)") /\ WellFormed(call.fixture)) =>
    /\ call.locals.panCalibrated
         = (IF call.fixture.panInverted THEN -call.locals.panRaw
            ELSE call.locals.panRaw) + call.fixture.panOffset
    /\ call.locals.tilt
         = (IF call.fixture.tiltInverted THEN -call.locals.tiltRaw
            ELSE call.locals.tiltRaw) + call.fixture.tiltOffset

---------------------------------------------------------------------------
(* Properties of the pan wrap of both revisions *)

\* a call of either revision has returned for a fixture with the pan range
\* [-270, 270] and a calibrated pan of 200 degrees
CalibratedPan200(op) ==
  /\ Returned(op)
  /\ call.fixture.panRange = [min |-> -270000, max |-> 270000]
  /\ call.locals.panCalibrated = 200000

\* C21, as stated: with panRange [-270, 270] and a calibrated pan of 200
\* degrees both revisions of calculatePanTilt return pan = -160
BothRevisionsWrap200 ==
  /\ CalibratedPan200("calculatePanTilt") => call.locals.pan = -160000
  /\ CalibratedPan200("calculatePanTilt (part_000)") => call.locals.pan = -160000

\* C21, amended: with panRange [-270, 270] and a calibrated pan of 200
\* degrees geometry.ts returns pan = -160 and part_000 returns pan = 200
OnlyClampingRevisionWraps200 ==
  /\ CalibratedPan200("calculatePanTilt") =>
       call.locals.pan = -160000 /\ call.result.pan = -160000
  /\ CalibratedPan200("calculatePanTilt (part_000)") => call.locals.pan = 200000

\* part_000 aimed along -X (raw pan 180) with a pan offset of 20 degrees
OnlyClampingRevisionWraps200Witness ==
  /\ CalibratedPan200("calculatePanTilt (part_000)")
  /\ call.locals.panRaw = 180000 /\ call.fixture.panOffset = 20000
  /\ call.locals.pan = 200000

\* C24: for a pan range of 360 degrees or more the pan calculatePanTilt
\* (geometry.ts) returns is congruent modulo 360 to the calibrated pan
FullTurnRangeKeepsBearing ==
  ( /\ Returned("calculatePanTilt")
    /\ call.fixture.panRange.max - call.fixture.panRange.min >= 360000 ) =>
    (call.result.pan - call.locals.panCalibrated) % 360000 = 0

---------------------------------------------------------------------------
(* Properties of the selection *)

\* no fixture of s is selected
NoneSelected(s) ==
  /\ s.selectedFixtures = << >>
  /\ \A i \in DOMAIN s.fixtures : ~s.fixtures[i].isSelected

\* every fixture of s is selected
AllSelected(s) ==
  /\ { s.selectedFixtures[i] : i \in DOMAIN s.selectedFixtures }
       = { s.fixtures[i].id : i \in DOMAIN s.fixtures }
  /\ \A i \in DOMAIN s.fixtures : s.fixtures[i].isSelected

\* C22: the select-all toggle leaves no fixture selected if all were selected
\* before the click, and all fixtures selected otherwise
SelectAllToggles ==
  [][ last'.op = "handleSelectAll" =>
        IF AllSelected(state) THEN NoneSelected(state')
        ELSE AllSelected(state') ]_vars

\* C29: Clear on a non-empty selection leaves the selection empty and every
\* isSelected false
ClearEmptiesSelection ==
  [][ (last'.op = "handleSelectNone" /\ state.selectedFixtures # << >>)
        => NoneSelected(state') ]_vars

\* C25: selectedFixtures has no duplicates and holds exactly the ids of the
\* fixtures whose isSelected is true
SelectionMatchesFlags ==
  /\ \A i, j \in DOMAIN state.selectedFixtures :
       i # j => state.selectedFixtures[i] # state.selectedFixtures[j]
  /\ { state.selectedFixtures[i] : i \in DOMAIN state.selectedFixtures }
       = { state.fixtures[i].id :
             i \in { j \in DOMAIN state.fixtures : state.fixtures[j].isSelected } }

PresetFields == DOMAIN defaultFixture(1, 0) \ {"isSelected"}

PresetsWithId(s, presetId) ==
  { i \in DOMAIN s.presets : s.presets[i].id = presetId }

DistinctPresetIds(s) ==
  \A i, j \in DOMAIN s.presets :
    s.presets[i].id = s.presets[j].id => i = j

\* C30: a saved preset is an immutable snapshot.  savePreset appends a
\* preset holding every field but isSelected of every fixture and keeps
\* the earlier presets; every operation other than savePreset and
\* deletePreset leaves the presets list as it was; loadPreset with the id
\* of a preset, ids being distinct, sets every field of every fixture to
\* the preset's value with isSelected false and keeps the presets list;
\* loadPreset with an unknown id changes nothing.
PresetsAreSnapshots ==
  [][ /\ (last'.op \notin {"savePreset", "deletePreset"})
           => state'.presets = state.presets
      /\ (last'.op = "savePreset")
           => /\ Len(state'.presets) = Len(state.presets) + 1
              /\ SubSeq(state'.presets, 1, Len(state.presets)) = state.presets
              /\ LET saved == state'.presets[Len(state'.presets)].fixtures
                 IN  /\ DOMAIN saved = DOMAIN state.fixtures
                     /\ \A i \in DOMAIN saved :
                          /\ DOMAIN saved[i] = PresetFields
                          /\ \A k \in PresetFields :
                               saved[i][k] = state.fixtures[i][k]
              /\ state'.fixtures = state.fixtures
      /\ (last'.op = "loadPreset" /\ DistinctPresetIds(state))
           => LET found == PresetsWithId(state, last'.args[1])
              IN  IF found = {} THEN state' = state
                  ELSE LET preset == state.presets[CHOOSE i \in found : TRUE]
                       IN  /\ DOMAIN state'.fixtures = DOMAIN preset.fixtures
                           /\ \A i \in DOMAIN preset.fixtures :
                                /\ state'.fixtures[i].isSelected = FALSE
                                /\ \A k \in PresetFields :
                                     state'.fixtures[i][k]
                                       = preset.fixtures[i][k]
    ]_vars

PresetsAreSnapshotsWitness ==
  /\ last.op = "loadPreset"
  /\ Len(state.presets) = 1
  /\ last.args[1] = state.presets[1].id
  /\ state.selectedFixtures # << >>
  /\ \A i \in DOMAIN state.fixtures :
       /\ state.fixtures[i].isSelected = FALSE
       /\ \A k \in PresetFields :
            state.fixtures[i][k] = state.presets[1].fixtures[i][k]

\* C23: while the TelnetClient is not connected commands are only queued:
\* nothing that sendCommand was given was given to it while the connected
\* flag was false.
NothingSentWhileDisconnected ==
  \A i \in DOMAIN telnet.sent : telnet.sent[i].connected

\* C26: on a TelnetClient that is never disconnected at most one
\* processQueue loop is active at any time, what has been sent is the
\* commands in the order they were passed with none left out or repeated,
\* and every command passed is sent in the end.
OneLoopDeliversInOrder ==
  /\ [](/\ ActiveLoops(telnet) <= 1
        /\ \A i \in DOMAIN telnet.sent : telnet.sent[i].command = i)
  /\ \A k \in 1..MaxCommands :
       (telnet.passed >= k) ~> (Len(telnet.sent) >= k)

OneLoopDeliversInOrderWitness ==
  /\ telnet.passed = MaxCommands
  /\ Len(telnet.sent) = MaxCommands
  /\ ~telnet.isProcessing
  /\ ActiveLoops(telnet) = 0

\* C27: at any time at most one of the clients initializeApi has made is
\* connected, and a connected client is the one the store holds.
OneConnectedClientHeld ==
  /\ \A i, j \in DOMAIN api.clients :
       (api.clients[i] /\ api.clients[j]) => i = j
  /\ \A i \in DOMAIN api.clients :
       api.clients[i] => api.apiClient = i

\* C28: a command method never rejects: called on a client that is not
\* connected it issues no request and resolves at once; a fetch that
\* rejects, a body that does not parse and a result without ok = true are
\* logged and the call resolves; no step of a call changes the connected
\* flag.
SendMethodsNeverReject ==
  [][ /\ \A i \in DOMAIN sends'.calls :
           /\ sends'.calls[i].at # "rejected"
           /\ ~sends'.calls[i].connected
                => /\ ~sends'.calls[i].requested
                   /\ sends'.calls[i].at = "resolved"
      /\ (sends'.calls # sends.calls) => sends'.connected = sends.connected
      /\ \A i \in DOMAIN sends.calls :
           (sends.calls[i].at \in {"fetch", "json"}
              /\ sends'.calls[i].at = "resolved")
             => sends'.calls[i].logged \in {"sent", "error"}
    ]_vars

SendMethodsNeverRejectWitness ==
  \E i, j \in DOMAIN sends.calls :
    /\ sends.calls[i].requested
    /\ sends.calls[i].at = "resolved"
    /\ sends.calls[i].logged = "error"
    /\ sends.calls[j].method # "sendGobo"
    /\ ~sends.calls[j].connected
    /\ sends.calls[j].at = "resolved"

====
